---------------------------- MODULE Spec2Model ----------------------------
(***************************************************************************)
(* A model of the fbx-binary-reader pull parser: the byte source, the      *)
(* framing state machine (reader/parser.rs), the Events iterator           *)
(* (reader/mod.rs), the error type (error.rs) and the delayed property     *)
(* buffer with its decode iterator (property.rs).                          *)
(*                                                                         *)
(* Bytes are integers 0..255, byte strings are sequences of bytes.  All    *)
(* integers of the inputs explored stay below 2^31.                        *)
(***************************************************************************)
EXTENDS Integers, Sequences, FiniteSets, TLC

VARIABLES
    source,            \* the octets the byte source will deliver (R: Read)
    consumed,          \* how many octets the byte source has handed out
    state,             \* Parser.state: [tag, err]
    version,           \* Parser.version
    pos,               \* Parser.pos
    end_offset_stack,  \* Parser.end_offset_stack
    iterating,         \* TRUE once EventReader::into_iter has been called
    finished,          \* Events.finished
    items,             \* history: what Events::next returned so far
    results,           \* history: what Parser::next returned so far
    idle_calls,        \* history: calls of Parser::next made in a terminal state
    iters,             \* the live PropertiesIter objects
    twin,              \* a second cursor, on the twin source (pair runs only)
    doc                \* history: how the source was built

vars == << source, consumed, state, version, pos, end_offset_stack,
           iterating, finished, items, results, idle_calls, iters, twin, doc >>

(***************************************************************************)
(* Bounds of the exploration.                                              *)
(***************************************************************************)
MaxNodes == 2        \* node records of a generated document
MaxIdleCalls == 2    \* calls of next made after a terminal state is reached
MaxIters == 2        \* property iterators alive at once

(***************************************************************************)
(* Little-endian integers.                                                 *)
(***************************************************************************)
RECURSIVE Sum(_)
Sum(s) == IF s = << >> THEN 0 ELSE Head(s) + Sum(Tail(s))

RECURSIVE Concat(_)
Concat(ss) == IF ss = << >> THEN << >> ELSE Head(ss) \o Concat(Tail(ss))

Take(s, n) == SubSeq(s, 1, n)
Drop(s, n) == SubSeq(s, n + 1, Len(s))

\* byteorder: read_u32::<LittleEndian>
U32LE(b) == b[1] + 256 * b[2] + 65536 * b[3] + 16777216 * b[4]

\* byteorder: read_u64::<LittleEndian>
U64LE(b) ==
    LET lo == U32LE(SubSeq(b, 1, 4))
        hi == U32LE(SubSeq(b, 5, 8))
    IN  IF hi = 0 THEN lo ELSE lo + (65536 * 65536) * hi

\* byteorder: read_i32::<LittleEndian> (two's complement)
I32LE(b) ==
    b[1] + 256 * b[2] + 65536 * b[3]
      + 16777216 * (IF b[4] >= 128 THEN b[4] - 256 ELSE b[4])

\* a faulty variant: the two octets read as an unsigned number
I16LE_unsigned(b) == b[1] + 256 * b[2]

\* byteorder: read_i16::<LittleEndian> (two's complement)
I16LE(b) == b[1] + 256 * (IF b[2] >= 128 THEN b[2] - 256 ELSE b[2])

\* the writer's side, for building inputs: n in 0 .. 2^31 - 1
LE32(n) == << n % 256, (n \div 256) % 256, (n \div 65536) % 256, n \div 16777216 >>
LE64(n) == LE32(n) \o << 0, 0, 0, 0 >>

(***************************************************************************)
(* UTF-8 validation, as String::from_utf8 / str::from_utf8 perform it.     *)
(* Utf8ValidUpTo(b) is the length of the longest valid prefix.             *)
(***************************************************************************)
IsCont(x) == x >= 128 /\ x <= 191

\* length of the well-formed scalar value that starts s, 0 when there is none
Utf8Width(s) ==
    LET n == Len(s)
        a == s[1]
    IN  IF a < 128 THEN 1
        ELSE IF a >= 194 /\ a <= 223
             THEN IF n >= 2 /\ IsCont(s[2]) THEN 2 ELSE 0
        ELSE IF a >= 224 /\ a <= 239
             THEN IF /\ n >= 3
                     /\ IsCont(s[2]) /\ IsCont(s[3])
                     /\ (a = 224 => s[2] >= 160)
                     /\ (a = 237 => s[2] <= 159)
                  THEN 3 ELSE 0
        ELSE IF a >= 240 /\ a <= 244
             THEN IF /\ n >= 4
                     /\ IsCont(s[2]) /\ IsCont(s[3]) /\ IsCont(s[4])
                     /\ (a = 240 => s[2] >= 144)
                     /\ (a = 244 => s[2] <= 143)
                  THEN 4 ELSE 0
        ELSE 0

\* the offsets at which s stops being well formed: a lead octet that starts no
\* well-formed scalar value, or a continuation octet no lead octet covers
Utf8Bad(s) ==
    { i \in 1..Len(s) :
        IF IsCont(s[i])
        THEN ~\E j \in 1..3 :
                 /\ i - j >= 1
                 /\ ~IsCont(s[i - j])
                 /\ Utf8Width(Drop(s, i - j - 1)) > j
                 /\ \A k \in 1..(j - 1) : IsCont(s[i - k])
        ELSE Utf8Width(Drop(s, i - 1)) = 0 }

\* Utf8Error::valid_up_to
Utf8ValidUpTo(s) ==
    LET bad == Utf8Bad(s)
    IN  IF bad = {} THEN Len(s)
        ELSE (CHOOSE i \in bad : \A j \in bad : i <= j) - 1

IsUtf8(s) == Utf8ValidUpTo(s) = Len(s)


(***************************************************************************)
(* error.rs: the error type and its Clone.                                 *)
(* An error is [variant, kind, text, a, b]: kind and text are the          *)
(* io::ErrorKind and the description of a wrapped io::Error, a and b the   *)
(* numbers a message carries (Utf8Error: valid_up_to; DataError: the       *)
(* expected and the actual position).                                      *)
(***************************************************************************)
MkError(v, k, t, x, y) == [variant |-> v, kind |-> k, text |-> t, a |-> x, b |-> y]

NoError == MkError("None", "", "", 0, 0)
InvalidMagic == MkError("InvalidMagic", "", "", 0, 0)
Utf8Error(valid_up_to) == MkError("Utf8Error", "", "", valid_up_to, 0)
Io(kind, text) == MkError("Io", kind, text, 0, 0)
DataError(text, expected, actual) == MkError("DataError", "", text, expected, actual)

\* the io::Error read_exact returns when the source runs dry
EofError == Io("UnexpectedEof", "failed to fill whole buffer")

\* a faulty variant: the clone of a wrapped io::Error loses its kind
Error_clone_losing_kind(e) ==
    IF e.variant = "Io" THEN Io("Other", e.text) ELSE e

\* impl Clone for Error
Error_clone(e) ==
    CASE e.variant = "Utf8Error" -> Utf8Error(e.a)
      [] e.variant = "InvalidMagic" -> InvalidMagic
      [] e.variant = "Io" -> Io(e.kind, e.text)
      [] e.variant = "DataError" -> DataError(e.text, e.a, e.b)
      [] OTHER -> e

(***************************************************************************)
(* event.rs and property.rs: events and the delayed property buffer.       *)
(***************************************************************************)
\* DelayedProperties::from_vec_u8
from_vec_u8(vec, num_properties) == [buffer |-> vec, num_properties |-> num_properties]

NoProperties == from_vec_u8(<< >>, 0)

MkEvent(k, v, n, p) == [kind |-> k, version |-> v, name |-> n, properties |-> p]
StartFbx(v) == MkEvent("StartFbx", v, << >>, NoProperties)
EndFbx == MkEvent("EndFbx", 0, << >>, NoProperties)
StartNode(name, properties) == MkEvent("StartNode", 0, name, properties)
EndNode == MkEvent("EndNode", 0, << >>, NoProperties)
NoEvent == MkEvent("None", 0, << >>, NoProperties)

\* Result<FbxEvent>
Ok(ev) == [ok |-> TRUE, ev |-> ev, err |-> NoError]
Err(e) == [ok |-> FALSE, ev |-> NoEvent, err |-> e]

(***************************************************************************)
(* Parser states.                                                          *)
(***************************************************************************)
ReadingMagic == [tag |-> "ReadingMagic", err |-> NoError]
ReadingNodes == [tag |-> "ReadingNodes", err |-> NoError]
SuccessfullyFinished == [tag |-> "SuccessfullyFinished", err |-> NoError]
Failed(e) == [tag |-> "Error", err |-> e]

I32Min == 0 - 2147483647 - 1

\* Parser::new: a cursor is [state, version, pos, end_offset_stack, consumed];
\* consumed is the byte source's own read position
Parser_new ==
    [state |-> ReadingMagic, version |-> I32Min, pos |-> 0,
     end_offset_stack |-> << >>, consumed |-> 0]

(***************************************************************************)
(* The byte-source adapter (the try_read_* macros).  A read of size bytes  *)
(* succeeds iff the source still holds that many; when it fails the source *)
(* may have handed out nothing or everything it had left (eof_drains).     *)
(***************************************************************************)
MagicLen == 21
Magic == << 75, 97, 121, 100, 97, 114, 97, 32, 70, 66, 88, 32,
            66, 105, 110, 97, 114, 121, 32, 32, 0 >>

CanRead(bytes, c, size) == c.consumed + size <= Len(bytes)
Peek(bytes, c, size) == SubSeq(bytes, c.consumed + 1, c.consumed + size)

\* a faulty variant: a successful read is not added to pos
Advance_not_counting(c, size) == [c EXCEPT !.consumed = @ + size]

\* try_read_generic, Ok arm: pos and the source both advance by size
Advance(c, size) == [c EXCEPT !.pos = @ + size, !.consumed = @ + size]

\* a faulty variant: the size added before the read is not taken back
ReadFailed_keeping_size(bytes, c, size, eof_drains) ==
    [cur |-> [c EXCEPT !.pos = @ + size,
                       !.consumed = IF eof_drains THEN Len(bytes) ELSE @],
     res |-> Err(EofError)]

\* try_read_generic, Err arm: pos is restored, Error::Io(err) is returned
ReadFailed(bytes, c, size, eof_drains) ==
    [cur |-> [c EXCEPT !.consumed = IF eof_drains THEN Len(bytes) ELSE @],
     res |-> Err(EofError)]

(***************************************************************************)
(* reader/parser.rs: the node record header.                               *)
(***************************************************************************)
LayoutSwitch == 7500

\* the sizes of the four header fields in the layout the version selects
FieldSizes(fbx_version) ==
    IF fbx_version < LayoutSwitch THEN << 4, 4, 4, 1 >> ELSE << 8, 8, 8, 1 >>

HeaderSize(fbx_version) == Sum(FieldSizes(fbx_version))

\* how many of the reads of sizes succeed, one after the other, from offset off
RECURSIVE ReadsDone(_, _, _)
ReadsDone(bytes, off, sizes) ==
    IF sizes = << >> \/ off + Head(sizes) > Len(bytes) THEN 0
    ELSE 1 + ReadsDone(bytes, off + Head(sizes), Tail(sizes))

\* NodeRecordHeader::is_null_record
is_null_record(h) ==
    h.end_offset = 0 /\ h.num_properties = 0 /\ h.property_byte_len = 0 /\ h.name_len = 0

NullHeader == [end_offset |-> 0, num_properties |-> 0, property_byte_len |-> 0, name_len |-> 0]

\* the i-th length field of header octets b, w octets wide
LengthField(b, w, i) ==
    IF w = 4 THEN U32LE(SubSeq(b, (i - 1) * w + 1, i * w))
    ELSE U64LE(SubSeq(b, (i - 1) * w + 1, i * w))

\* NodeRecordHeader::read_from: three lengths in the layout of fbx_version,
\* then the 1-byte name_len; a failed read returns Error::Io with pos advanced
\* over the fields read before it
read_from(bytes, c, fbx_version, eof_drains) ==
    LET sizes == FieldSizes(fbx_version)
        w == sizes[1]
        done == ReadsDone(bytes, c.consumed, sizes)
        got == Sum(Take(sizes, done))
        b == Peek(bytes, c, 3 * w + 1)
    IN  IF done < 4
        THEN [ok |-> FALSE, hdr |-> NullHeader,
              cur |-> [c EXCEPT !.pos = @ + got,
                                !.consumed = IF eof_drains THEN Len(bytes) ELSE @ + got]]
        ELSE [ok |-> TRUE,
              hdr |-> [end_offset |-> LengthField(b, w, 1),
                       num_properties |-> LengthField(b, w, 2),
                       property_byte_len |-> LengthField(b, w, 3),
                       name_len |-> b[3 * w + 1]],
              cur |-> Advance(c, 3 * w + 1)]

(***************************************************************************)
(* reader/parser.rs: Parser::magic_next.                                   *)
(***************************************************************************)
\* a faulty variant: the magic is compared without its last byte
magic_matches_short(magic) == Take(magic, 20) = Take(Magic, 20)

\* magic != *b"Kaydara FBX Binary  \0", negated
magic_matches(magic) == magic = Magic

\* a faulty variant: the two octets behind the magic must be 1A 00
magic_checked_strictly(bytes, c, eof_drains) ==
    LET c1 == Advance(c, MagicLen) IN
    IF ~magic_matches(Peek(bytes, c, MagicLen)) THEN [cur |-> c1, res |-> Err(InvalidMagic)]
    ELSE IF ~CanRead(bytes, c1, 2) THEN ReadFailed(bytes, c1, 2, eof_drains)
    ELSE
    LET c2 == Advance(c1, 2) IN
    IF Peek(bytes, c1, 2) # << 26, 0 >> THEN [cur |-> c2, res |-> Err(InvalidMagic)]
    ELSE IF ~CanRead(bytes, c2, 4) THEN ReadFailed(bytes, c2, 4, eof_drains)
    ELSE
    LET v == I32LE(Peek(bytes, c2, 4))
        c3 == Advance(c2, 4)
    IN  [cur |-> [c3 EXCEPT !.state = ReadingNodes], res |-> Ok(StartFbx(v))]

\* Parser::magic_next once the source is known to hold the 21 octets
magic_checked(bytes, c, eof_drains) ==
    LET c1 == Advance(c, MagicLen) IN
    IF ~magic_matches(Peek(bytes, c, MagicLen)) THEN [cur |-> c1, res |-> Err(InvalidMagic)]
    ELSE IF ~CanRead(bytes, c1, 2) THEN ReadFailed(bytes, c1, 2, eof_drains)
    ELSE
    \* the two bytes are only compared for a warning
    LET c2 == Advance(c1, 2) IN
    IF ~CanRead(bytes, c2, 4) THEN ReadFailed(bytes, c2, 4, eof_drains)
    ELSE
    LET v == I32LE(Peek(bytes, c2, 4))
        c3 == Advance(c2, 4)
    IN  \* self.version is not assigned
        [cur |-> [c3 EXCEPT !.state = ReadingNodes], res |-> Ok(StartFbx(v))]

\* a faulty variant: a short read of the magic is not noticed, and the zero-filled
\* buffer is compared
magic_next_unchecked_read(bytes, c, eof_drains) ==
    IF ~CanRead(bytes, c, MagicLen)
    THEN [cur |-> [c EXCEPT !.pos = @ + MagicLen, !.consumed = Len(bytes)],
          res |-> Err(InvalidMagic)]
    ELSE magic_checked(bytes, c, eof_drains)

\* Parser::magic_next: returns the cursor as it leaves it and the result
magic_next(bytes, c, eof_drains) ==
    IF ~CanRead(bytes, c, MagicLen) THEN ReadFailed(bytes, c, MagicLen, eof_drains)
    ELSE magic_checked(bytes, c, eof_drains)

(***************************************************************************)
(* reader/parser.rs: Parser::nodes_next.                                   *)
(***************************************************************************)
Top(stack) == stack[Len(stack)]
\* a faulty variant: closing a node forgets every open node
Pop_clearing(stack) == << >>
Pop(stack) == SubSeq(stack, 1, Len(stack) - 1)

DoesNotEnd == "Node does not end at expected position"

\* a faulty variant: a null record closes the open node wherever it stands
close_at_null_unchecked(c) ==
    [cur |-> [c EXCEPT !.end_offset_stack = Pop(@)], res |-> Ok(EndNode)]

\* a faulty variant: the entry is compared but left on the stack
close_at_null_keeping_entry(c) ==
    LET expected_pos == Top(c.end_offset_stack)
    IN  IF c.pos = expected_pos
        THEN [cur |-> c, res |-> Ok(EndNode)]
        ELSE [cur |-> c, res |-> Err(DataError(DoesNotEnd, expected_pos, c.pos))]

\* the null-record arm with a node open: pop, compare with pos
close_at_null(c) ==
    LET expected_pos == Top(c.end_offset_stack)
        c1 == [c EXCEPT !.end_offset_stack = Pop(@)]
    IN  IF c.pos = expected_pos
        THEN [cur |-> c1, res |-> Ok(EndNode)]
        ELSE [cur |-> c1, res |-> Err(DataError(DoesNotEnd, expected_pos, c.pos))]

\* a faulty variant: the name's octets are not checked to be UTF-8
start_node_accepting_any_name(bytes, c, h, eof_drains) ==
    IF ~CanRead(bytes, c, h.name_len) THEN ReadFailed(bytes, c, h.name_len, eof_drains)
    ELSE
    LET name == Peek(bytes, c, h.name_len)
        c1 == Advance(c, h.name_len)
    IN
    IF ~CanRead(bytes, c1, h.property_byte_len)
    THEN ReadFailed(bytes, c1, h.property_byte_len, eof_drains)
    ELSE [cur |-> Advance(c1, h.property_byte_len),
          res |-> Ok(StartNode(name, from_vec_u8(Peek(bytes, c1, h.property_byte_len),
                                                 h.num_properties)))]

\* the start-of-node arm after the push: the name, then the property bytes
start_node(bytes, c, h, eof_drains) ==
    IF ~CanRead(bytes, c, h.name_len) THEN ReadFailed(bytes, c, h.name_len, eof_drains)
    ELSE
    LET name == Peek(bytes, c, h.name_len)
        c1 == Advance(c, h.name_len)
    IN
    IF ~IsUtf8(name) THEN [cur |-> c1, res |-> Err(Utf8Error(Utf8ValidUpTo(name)))]
    ELSE IF ~CanRead(bytes, c1, h.property_byte_len)
    THEN ReadFailed(bytes, c1, h.property_byte_len, eof_drains)
    ELSE [cur |-> Advance(c1, h.property_byte_len),
          res |-> Ok(StartNode(name, from_vec_u8(Peek(bytes, c1, h.property_byte_len),
                                                 h.num_properties)))]

\* a faulty variant: the entry met at its end offset is left on the stack
nodes_next_keeping_entry(bytes, c, eof_drains) ==
    IF c.end_offset_stack # << >> /\ Top(c.end_offset_stack) = c.pos
    THEN [cur |-> c, res |-> Ok(EndNode)]
    ELSE
    LET r == read_from(bytes, c, c.version, eof_drains) IN
    IF ~r.ok THEN [cur |-> r.cur, res |-> Err(EofError)]
    ELSE IF is_null_record(r.hdr)
    THEN IF r.cur.end_offset_stack # << >>
         THEN close_at_null(r.cur)
         ELSE [cur |-> r.cur, res |-> Ok(EndFbx)]
    ELSE start_node(bytes,
                    [r.cur EXCEPT !.end_offset_stack = Append(@, r.hdr.end_offset)],
                    r.hdr, eof_drains)

\* a faulty variant: a null record ends the document whatever is open
nodes_next_ending_at_any_null(bytes, c, eof_drains) ==
    IF c.end_offset_stack # << >> /\ Top(c.end_offset_stack) = c.pos
    THEN [cur |-> [c EXCEPT !.end_offset_stack = Pop(@)], res |-> Ok(EndNode)]
    ELSE
    LET r == read_from(bytes, c, c.version, eof_drains) IN
    IF ~r.ok THEN [cur |-> r.cur, res |-> Err(EofError)]
    ELSE IF is_null_record(r.hdr)
    THEN [cur |-> r.cur, res |-> Ok(EndFbx)]
    ELSE start_node(bytes,
                    [r.cur EXCEPT !.end_offset_stack = Append(@, r.hdr.end_offset)],
                    r.hdr, eof_drains)

\* a faulty variant: a header is read before the stack is looked at
nodes_next_reading_first(bytes, c, eof_drains) ==
    LET r == read_from(bytes, c, c.version, eof_drains) IN
    IF ~r.ok THEN [cur |-> r.cur, res |-> Err(EofError)]
    ELSE IF r.cur.end_offset_stack # << >> /\ Top(r.cur.end_offset_stack) = c.pos
    THEN [cur |-> [r.cur EXCEPT !.end_offset_stack = Pop(@)], res |-> Ok(EndNode)]
    ELSE IF is_null_record(r.hdr)
    THEN IF r.cur.end_offset_stack # << >>
         THEN close_at_null(r.cur)
         ELSE [cur |-> r.cur, res |-> Ok(EndFbx)]
    ELSE start_node(bytes,
                    [r.cur EXCEPT !.end_offset_stack = Append(@, r.hdr.end_offset)],
                    r.hdr, eof_drains)

\* a faulty variant: the closing null record must be the last octets
nodes_next_requiring_end(bytes, c, eof_drains) ==
    IF c.end_offset_stack # << >> /\ Top(c.end_offset_stack) = c.pos
    THEN [cur |-> [c EXCEPT !.end_offset_stack = Pop(@)], res |-> Ok(EndNode)]
    ELSE
    LET r == read_from(bytes, c, c.version, eof_drains) IN
    IF ~r.ok THEN [cur |-> r.cur, res |-> Err(EofError)]
    ELSE IF is_null_record(r.hdr)
    THEN IF r.cur.end_offset_stack # << >>
         THEN close_at_null(r.cur)
         ELSE IF r.cur.consumed = Len(bytes)
         THEN [cur |-> r.cur, res |-> Ok(EndFbx)]
         ELSE [cur |-> r.cur, res |-> Err(DataError(DoesNotEnd, Len(bytes), r.cur.pos))]
    ELSE start_node(bytes,
                    [r.cur EXCEPT !.end_offset_stack = Append(@, r.hdr.end_offset)],
                    r.hdr, eof_drains)

\* Parser::nodes_next
nodes_next(bytes, c, eof_drains) ==
    IF c.end_offset_stack # << >> /\ Top(c.end_offset_stack) = c.pos
    THEN [cur |-> [c EXCEPT !.end_offset_stack = Pop(@)], res |-> Ok(EndNode)]
    ELSE
    LET r == read_from(bytes, c, c.version, eof_drains) IN
    IF ~r.ok THEN [cur |-> r.cur, res |-> Err(EofError)]
    ELSE IF is_null_record(r.hdr)
    THEN IF r.cur.end_offset_stack # << >>
         THEN close_at_null(r.cur)
         ELSE [cur |-> r.cur, res |-> Ok(EndFbx)]
    ELSE start_node(bytes,
                    [r.cur EXCEPT !.end_offset_stack = Append(@, r.hdr.end_offset)],
                    r.hdr, eof_drains)

(***************************************************************************)
(* reader/parser.rs: Parser::next.                                         *)
(***************************************************************************)
IsTerminal(st) == st.tag \in {"SuccessfullyFinished", "Error"}

\* a faulty variant: EndFbx does not latch the finished state
Parser_next_not_latching_end(bytes, c, eof_drains) ==
    CASE c.state.tag = "SuccessfullyFinished" -> [cur |-> c, res |-> Ok(EndFbx)]
      [] c.state.tag = "Error" -> [cur |-> c, res |-> Err(Error_clone(c.state.err))]
      [] OTHER ->
           LET r == IF c.state.tag = "ReadingMagic"
                    THEN magic_next(bytes, c, eof_drains)
                    ELSE nodes_next(bytes, c, eof_drains)
           IN  IF ~r.res.ok
               THEN [r EXCEPT !.cur.state = Failed(Error_clone(r.res.err))]
               ELSE r

\* a faulty variant: a call made after EndFbx reads what is left of the source
Parser_next_reading_footer(bytes, c, eof_drains) ==
    CASE c.state.tag = "SuccessfullyFinished" ->
           [cur |-> [c EXCEPT !.consumed = Len(bytes), !.pos = @ + (Len(bytes) - c.consumed)],
            res |-> Ok(EndFbx)]
      [] c.state.tag = "Error" -> [cur |-> c, res |-> Err(Error_clone(c.state.err))]
      [] OTHER ->
           LET r == IF c.state.tag = "ReadingMagic"
                    THEN magic_next(bytes, c, eof_drains)
                    ELSE nodes_next(bytes, c, eof_drains)
           IN  IF r.res.ok /\ r.res.ev.kind = "EndFbx"
               THEN [r EXCEPT !.cur.state = SuccessfullyFinished]
               ELSE IF ~r.res.ok
               THEN [r EXCEPT !.cur.state = Failed(Error_clone(r.res.err))]
               ELSE r

\* Parser::next: the terminal states answer without reading; otherwise the
\* state's handler runs and EndFbx or an error latches the terminal state
Parser_next(bytes, c, eof_drains) ==
    CASE c.state.tag = "SuccessfullyFinished" -> [cur |-> c, res |-> Ok(EndFbx)]
      [] c.state.tag = "Error" -> [cur |-> c, res |-> Err(Error_clone(c.state.err))]
      [] OTHER ->
           LET r == IF c.state.tag = "ReadingMagic"
                    THEN magic_next(bytes, c, eof_drains)
                    ELSE nodes_next(bytes, c, eof_drains)
           IN  IF r.res.ok /\ r.res.ev.kind = "EndFbx"
               THEN [r EXCEPT !.cur.state = SuccessfullyFinished]
               ELSE IF ~r.res.ok
               THEN [r EXCEPT !.cur.state = Failed(Error_clone(r.res.err))]
               ELSE r

(***************************************************************************)
(* property.rs: the decode iterator over a delayed property buffer.        *)
(* A property value is [t, ok, v]: t the Property variant, v its payload   *)
(* (a number, a BOOLEAN, a byte string, or a sequence of elements), ok     *)
(* FALSE only for a String whose bytes are not UTF-8.  A float is carried  *)
(* as its IEEE 754 bit pattern, most significant octet first.              *)
(***************************************************************************)
MkProperty(t, ok, v) == [t |-> t, ok |-> ok, v |-> v]

\* Option<Property>
NoProperty == [some |-> FALSE, val |-> MkProperty("None", TRUE, 0)]
SomeProperty(val) == [some |-> TRUE, val |-> val]

\* no accessor has been called on a value of an iterator yet
NoCall == [accessor |-> "none", arg |-> 0, out |-> [some |-> FALSE, v |-> 0]]

\* DelayedProperties::iter
DelayedProperties_iter(properties) ==
    [buffer |-> properties.buffer, rest_properties |-> properties.num_properties]

\* #[derive(Clone)] on DelayedProperties: a buffer of its own with the same
\* octets and the same count
DelayedProperties_clone(properties) ==
    from_vec_u8([k \in 1..Len(properties.buffer) |-> properties.buffer[k]],
                properties.num_properties)

\* byteorder: read_i64::<LittleEndian> (two's complement)
I64LE(b) ==
    LET lo == I32LE(SubSeq(b, 1, 4))
        hi == I32LE(SubSeq(b, 5, 8))
        carry == hi + (IF lo < 0 THEN 1 ELSE 0)
    IN  IF carry = 0 THEN lo ELSE lo + (65536 * 65536) * carry

\* byteorder: read_f32 / read_f64::<LittleEndian>, as the bit pattern
Bits(b) == [i \in 1..Len(b) |-> b[Len(b) + 1 - i]]

\* the element width and the Property variant of an array type code
ElementSize(type_code) ==
    CASE type_code = 98 -> 1
      [] type_code = 105 -> 4
      [] type_code = 108 -> 8
      [] type_code = 102 -> 4
      [] OTHER -> 8

ArrayVariant(type_code) ==
    CASE type_code = 98 -> "VecBool"
      [] type_code = 105 -> "VecI32"
      [] type_code = 108 -> "VecI64"
      [] type_code = 102 -> "VecF32"
      [] OTHER -> "VecF64"

\* one element of an array, from its octets
Element(type_code, b) ==
    CASE type_code = 98 -> (b[1] % 2 = 1)
      [] type_code = 105 -> I32LE(b)
      [] type_code = 108 -> I64LE(b)
      [] OTHER -> Bits(b)

\* ArrayHeader::from_binary
ArrayHeaderLength == 4 * 3
\* a faulty variant: a header cut short is filled up with zeros
ArrayHeader_from_binary_zero_filled(src) ==
    LET s == [i \in 1..ArrayHeaderLength |-> IF i <= Len(src) THEN src[i] ELSE 0]
    IN  [ok |-> TRUE,
         num_elements |-> U32LE(SubSeq(s, 1, 4)),
         encoding |-> U32LE(SubSeq(s, 5, 8)),
         compressed_length |-> U32LE(SubSeq(s, 9, 12))]

ArrayHeader_from_binary(src) ==
    IF Len(src) < ArrayHeaderLength
    THEN [ok |-> FALSE, num_elements |-> 0, encoding |-> 0, compressed_length |-> 0]
    ELSE [ok |-> TRUE,
          num_elements |-> U32LE(SubSeq(src, 1, 4)),
          encoding |-> U32LE(SubSeq(src, 5, 8)),
          compressed_length |-> U32LE(SubSeq(src, 9, 12))]

(***************************************************************************)
(* flate2's ZlibDecoder, for streams made of stored blocks (RFC 1950 and   *)
(* RFC 1951, block type 00); streams with compressed blocks are not among  *)
(* the inputs.  A decoded stream is [data, bad]: the octets the decoder    *)
(* delivers, and whether it then reports an error rather than the end.     *)
(***************************************************************************)
AdlerBase == 65521

\* the Adler-32 checksum of data, as the four octets that end the stream
Adler32(data) ==
    LET a == (1 + Sum(data)) % AdlerBase
        b == Sum([k \in 1..Len(data) |-> (1 + Sum(Take(data, k))) % AdlerBase]) % AdlerBase
    IN  << b \div 256, b % 256, a \div 256, a % 256 >>

ZlibHeaderOk(buf) ==
    /\ buf[1] % 16 = 8
    /\ buf[1] \div 16 <= 7
    /\ (buf[1] * 256 + buf[2]) % 31 = 0
    /\ (buf[2] \div 32) % 2 = 0

\* the stored blocks that start b: [data, end, rest], end "end" after the
\* final block (rest holds what follows it), "eof" when b runs out, "bad" on
\* a block that is not a well-formed stored block
RECURSIVE StoredBlocks(_)
StoredBlocks(b) ==
    IF Len(b) < 1 THEN [data |-> << >>, end |-> "eof", rest |-> << >>]
    ELSE IF (b[1] \div 2) % 4 # 0 THEN [data |-> << >>, end |-> "bad", rest |-> << >>]
    ELSE IF Len(b) < 5 THEN [data |-> << >>, end |-> "eof", rest |-> << >>]
    ELSE
    LET len == b[2] + 256 * b[3]
        nlen == b[4] + 256 * b[5]
    IN  IF len + nlen # 65535 THEN [data |-> << >>, end |-> "bad", rest |-> << >>]
        ELSE IF Len(b) - 5 < len
        THEN [data |-> Drop(b, 5), end |-> "eof", rest |-> << >>]
        ELSE IF b[1] % 2 = 1
        THEN [data |-> SubSeq(b, 6, 5 + len), end |-> "end", rest |-> Drop(b, 5 + len)]
        ELSE LET more == StoredBlocks(Drop(b, 5 + len))
             IN  [more EXCEPT !.data = SubSeq(b, 6, 5 + len) \o @]

\* a faulty variant: the payload handed on as it is, not inflated
Inflate_not_inflating(buf) == [data |-> buf, bad |-> FALSE]

\* ZlibDecoder::new(buffer), read to its end
Inflate(buf) ==
    IF Len(buf) < 2 THEN [data |-> << >>, bad |-> FALSE]
    ELSE IF ~ZlibHeaderOk(buf) THEN [data |-> << >>, bad |-> TRUE]
    ELSE LET s == StoredBlocks(Drop(buf, 2))
         IN  [data |-> s.data,
              bad |-> \/ s.end = "bad"
                      \/ /\ s.end = "end"
                         /\ Len(s.rest) >= 4
                         /\ Take(s.rest, 4) # Adler32(s.data)]

\* read_property_array_from_plain_stream: num_elements reads of one element
\* each; any failing read gives None
read_property_array_from_plain_stream(reader, header, type_code) ==
    LET size == ElementSize(type_code)
        need == header.num_elements * size
    IN  IF need = 0 \/ need < Len(reader.data) \/ (need = Len(reader.data) /\ ~reader.bad)
        THEN SomeProperty(MkProperty(ArrayVariant(type_code), TRUE,
                 [i \in 1..header.num_elements |->
                     Element(type_code, SubSeq(reader.data, (i - 1) * size + 1, i * size))]))
        ELSE NoProperty

\* read_property_array: encoding 0 is plain, 1 is zlib, anything else unknown
read_property_array(buffer, header, type_code) ==
    CASE header.encoding = 0 ->
           read_property_array_from_plain_stream([data |-> buffer, bad |-> FALSE],
                                                 header, type_code)
      [] header.encoding = 1 ->
           read_property_array_from_plain_stream(Inflate(buffer), header, type_code)
      [] OTHER -> NoProperty

\* the width of the scalar a type code announces, and its value
PrimitiveSize(type_code) ==
    CASE type_code = 89 -> 2
      [] type_code = 73 -> 4
      [] type_code = 70 -> 4
      [] OTHER -> 8

PrimitiveValue(type_code, b) ==
    CASE type_code = 89 -> MkProperty("I16", TRUE, I16LE(b))
      [] type_code = 73 -> MkProperty("I32", TRUE, I32LE(b))
      [] type_code = 76 -> MkProperty("I64", TRUE, I64LE(b))
      [] type_code = 70 -> MkProperty("F32", TRUE, Bits(b))
      [] OTHER -> MkProperty("F64", TRUE, Bits(b))

\* a faulty variant: None is returned but a count is left
GiveUp_leaving_count(buffer) ==
    [it |-> [buffer |-> buffer, rest_properties |-> 1], out |-> NoProperty]

\* the iterator gives up: rest_properties = 0, None
GiveUp(buffer) ==
    [it |-> [buffer |-> buffer, rest_properties |-> 0], out |-> NoProperty]

\* a faulty variant: a yield that does not count the value
Yield_not_counting(buffer, rest, val) ==
    [it |-> [buffer |-> buffer, rest_properties |-> rest + 1], out |-> SomeProperty(val)]

\* a faulty variant: a yield that takes one octet more than the value's own
Yield_overrunning(buffer, rest, val) ==
    [it |-> [buffer |-> IF buffer = << >> THEN buffer ELSE Tail(buffer),
             rest_properties |-> rest],
     out |-> SomeProperty(val)]

\* the iterator yields val and counts it
Yield(buffer, rest, val) ==
    [it |-> [buffer |-> buffer, rest_properties |-> rest], out |-> SomeProperty(val)]

\* the other copy of the module (property/mod.rs): octets that are not UTF-8
\* end the iteration
read_string_prop_strict(buffer, rest, buf) ==
    IF IsUtf8(buf) THEN Yield(buffer, rest, MkProperty("String", TRUE, buf))
    ELSE GiveUp(buffer)

\* the 'S' arm once the length and that many octets are there: str::from_utf8,
\* the octets themselves in the Err arm when they are not UTF-8
read_string_prop(buffer, rest, buf) ==
    Yield(buffer, rest, MkProperty("String", IsUtf8(buf), buf))

\* a faulty variant: the element reader is given the rest of the buffer, not
\* the compressed_length octets
PropertiesIter_next_unbounded_array(it) ==
    IF it.rest_properties = 0 THEN [it |-> it, out |-> NoProperty]
    ELSE IF Len(it.buffer) < 1 THEN GiveUp(it.buffer)
    ELSE
    LET type_code == it.buffer[1]
        b == Tail(it.buffer)
        rest == it.rest_properties - 1
    IN  CASE type_code = 67 ->
               IF Len(b) < 1 THEN GiveUp(b)
               ELSE Yield(Drop(b, 1), rest, MkProperty("Bool", TRUE, b[1] % 2 = 1))
          [] type_code \in {89, 73, 76, 70, 68} ->
               LET size == PrimitiveSize(type_code)
               IN  IF Len(b) < size THEN GiveUp(b)
                   ELSE Yield(Drop(b, size), rest, PrimitiveValue(type_code, Take(b, size)))
          [] type_code \in {83, 82} ->
               IF Len(b) < 4 THEN GiveUp(b)
               ELSE LET length == U32LE(Take(b, 4))
                        b2 == Drop(b, 4)
                    IN  IF Len(b2) < length THEN GiveUp(b2)
                        ELSE IF type_code = 83
                             THEN read_string_prop(Drop(b2, length), rest, Take(b2, length))
                             ELSE Yield(Drop(b2, length), rest,
                                        MkProperty("Binary", TRUE, Take(b2, length)))
          [] type_code \in {98, 105, 108, 102, 100} ->
               LET array_header == ArrayHeader_from_binary(b)
                   b2 == Drop(b, ArrayHeaderLength)
               IN  IF ~array_header.ok THEN GiveUp(b)
                   ELSE IF Len(b2) < array_header.compressed_length THEN GiveUp(b2)
                   ELSE LET val == read_property_array(
                                       b2,
                                       array_header, type_code)
                            b3 == Drop(b2, array_header.compressed_length)
                        IN  IF val.some THEN Yield(b3, rest, val.val) ELSE GiveUp(b3)
          [] OTHER -> GiveUp(b)

\* a faulty variant: a Bool octet other than 'T' and 'Y' ends the iteration
PropertiesIter_next_strict_bool(it) ==
    IF it.rest_properties = 0 THEN [it |-> it, out |-> NoProperty]
    ELSE IF Len(it.buffer) < 1 THEN GiveUp(it.buffer)
    ELSE
    LET type_code == it.buffer[1]
        b == Tail(it.buffer)
        rest == it.rest_properties - 1
    IN  CASE type_code = 67 ->
               IF Len(b) < 1 \/ b[1] \notin {84, 89} THEN GiveUp(b)
               ELSE Yield(Drop(b, 1), rest, MkProperty("Bool", TRUE, b[1] % 2 = 1))
          [] type_code \in {89, 73, 76, 70, 68} ->
               LET size == PrimitiveSize(type_code)
               IN  IF Len(b) < size THEN GiveUp(b)
                   ELSE Yield(Drop(b, size), rest, PrimitiveValue(type_code, Take(b, size)))
          [] type_code \in {83, 82} ->
               IF Len(b) < 4 THEN GiveUp(b)
               ELSE LET length == U32LE(Take(b, 4))
                        b2 == Drop(b, 4)
                    IN  IF Len(b2) < length THEN GiveUp(b2)
                        ELSE IF type_code = 83
                             THEN read_string_prop(Drop(b2, length), rest, Take(b2, length))
                             ELSE Yield(Drop(b2, length), rest,
                                        MkProperty("Binary", TRUE, Take(b2, length)))
          [] type_code \in {98, 105, 108, 102, 100} ->
               LET array_header == ArrayHeader_from_binary(b)
                   b2 == Drop(b, ArrayHeaderLength)
               IN  IF ~array_header.ok THEN GiveUp(b)
                   ELSE IF Len(b2) < array_header.compressed_length THEN GiveUp(b2)
                   ELSE LET val == read_property_array(
                                       Take(b2, array_header.compressed_length),
                                       array_header, type_code)
                            b3 == Drop(b2, array_header.compressed_length)
                        IN  IF val.some THEN Yield(b3, rest, val.val) ELSE GiveUp(b3)
          [] OTHER -> GiveUp(b)

\* <PropertiesIter as Iterator>::next: the iterator as it is left, and the
\* Option it returns
PropertiesIter_next(it) ==
    IF it.rest_properties = 0 THEN [it |-> it, out |-> NoProperty]
    ELSE IF Len(it.buffer) < 1 THEN GiveUp(it.buffer)
    ELSE
    LET type_code == it.buffer[1]
        b == Tail(it.buffer)
        rest == it.rest_properties - 1
    IN  CASE type_code = 67 ->
               IF Len(b) < 1 THEN GiveUp(b)
               ELSE Yield(Drop(b, 1), rest, MkProperty("Bool", TRUE, b[1] % 2 = 1))
          [] type_code \in {89, 73, 76, 70, 68} ->
               LET size == PrimitiveSize(type_code)
               IN  IF Len(b) < size THEN GiveUp(b)
                   ELSE Yield(Drop(b, size), rest, PrimitiveValue(type_code, Take(b, size)))
          [] type_code \in {83, 82} ->
               IF Len(b) < 4 THEN GiveUp(b)
               ELSE LET length == U32LE(Take(b, 4))
                        b2 == Drop(b, 4)
                    IN  IF Len(b2) < length THEN GiveUp(b2)
                        ELSE IF type_code = 83
                             THEN read_string_prop(Drop(b2, length), rest, Take(b2, length))
                             ELSE Yield(Drop(b2, length), rest,
                                        MkProperty("Binary", TRUE, Take(b2, length)))
          [] type_code \in {98, 105, 108, 102, 100} ->
               LET array_header == ArrayHeader_from_binary(b)
                   b2 == Drop(b, ArrayHeaderLength)
               IN  IF ~array_header.ok THEN GiveUp(b)
                   ELSE IF Len(b2) < array_header.compressed_length THEN GiveUp(b2)
                   ELSE LET val == read_property_array(
                                       Take(b2, array_header.compressed_length),
                                       array_header, type_code)
                            b3 == Drop(b2, array_header.compressed_length)
                        IN  IF val.some THEN Yield(b3, rest, val.val) ELSE GiveUp(b3)
          [] OTHER -> GiveUp(b)

\* PropertiesIter::size_hint
size_hint(it) == << 0, it.rest_properties >>

\* what iterating it to its end yields
RECURSIVE Collect(_)
Collect(it) ==
    LET r == PropertiesIter_next(it)
    IN  IF r.out.some THEN << r.out.val >> \o Collect(r.it) ELSE << >>

(***************************************************************************)
(* Documents.  An input is built from a token sequence: "open" is a node   *)
(* record (header, name, property bytes), "null" a null record closing the *)
(* innermost open node, "end" the end of a node closed without a null      *)
(* record (no bytes); the null record of the implicit root follows the     *)
(* last token.  decl says what the writer put into end_offset: "true" (the *)
(* node's end), "body" (the offset right after the node's own property     *)
(* bytes), "minus1" or "plus1" (the node's end -1 / +1).                   *)
(***************************************************************************)
Kinds == {"open", "null", "end"}

Opens(t, i) == Cardinality({j \in 1..i : t[j] = "open"})
Depth(t, i) == 2 * Opens(t, i) - i

Balanced(t) ==
    /\ \A i \in 1..Len(t) : Depth(t, i) >= 0
    /\ Depth(t, Len(t)) = 0
    /\ Opens(t, Len(t)) <= MaxNodes

Shapes == {t \in UNION {[1..n -> Kinds] : n \in 0..(2 * MaxNodes)} : Balanced(t)}

\* the token closing the node opened by token i
Match(t, i) == CHOOSE j \in (i + 1)..Len(t) :
                   /\ Depth(t, j) = Depth(t, i) - 1
                   /\ \A k \in (i + 1)..(j - 1) : Depth(t, k) >= Depth(t, i)

Payloads ==
    { [name |-> << 65 >>, props |-> << >>, nprops |-> 0],
      [name |-> << 66 >>, props |-> << 73, 42, 0, 0, 0 >>, nprops |-> 1],
      [name |-> << 67 >>, props |-> << 90, 1 >>, nprops |-> 2],
      [name |-> << >>, props |-> << >>, nprops |-> 0],
      [name |-> << 195, 169 >>, props |-> << 67, 84 >>, nprops |-> 1] }

BadNamePayload == [name |-> << 65, 128 >>, props |-> << >>, nprops |-> 0]

\* the tokens of shape t: node number target carries payload and decl, the
\* other nodes are plain
Token(t, i, target, payload, decl) ==
    IF t[i] = "open" /\ Opens(t, i) = target
    THEN [k |-> "open", name |-> payload.name, props |-> payload.props,
          nprops |-> payload.nprops, decl |-> decl]
    ELSE [k |-> t[i], name |-> << 96 + i >>, props |-> << >>,
          nprops |-> 0, decl |-> "true"]

RECURSIVE TokensUpTo(_, _, _, _, _)
TokensUpTo(t, n, target, payload, decl) ==
    IF n = 0 THEN << >>
    ELSE Append(TokensUpTo(t, n - 1, target, payload, decl),
                Token(t, n, target, payload, decl))

Tokens(t, target, payload, decl) == TokensUpTo(t, Len(t), target, payload, decl)

KindsOf(toks) == [i \in 1..Len(toks) |-> toks[i].k]

Zeros(n) == [i \in 1..n |-> 0]

TokLen(tok, hs) ==
    CASE tok.k = "open" -> hs + Len(tok.name) + Len(tok.props)
      [] tok.k = "null" -> hs
      [] OTHER -> 0

\* the offset of the first node record: the magic, two octets, the version
HeaderEnd == MagicLen + 2 + 4

TokStart(toks, i, hs) == HeaderEnd + Sum([j \in 1..(i - 1) |-> TokLen(toks[j], hs)])
BodyStart(toks, i, hs) == TokStart(toks, i, hs) + TokLen(toks[i], hs)
TrueEnd(toks, i, hs) == BodyStart(toks, Match(KindsOf(toks), i), hs)
ChildrenEnd(toks, i, hs) == TokStart(toks, Match(KindsOf(toks), i), hs)

Declared(toks, i, hs) ==
    CASE toks[i].decl = "body" -> BodyStart(toks, i, hs)
      [] toks[i].decl = "minus1" -> TrueEnd(toks, i, hs) - 1
      [] toks[i].decl = "plus1" -> TrueEnd(toks, i, hs) + 1
      [] OTHER -> TrueEnd(toks, i, hs)

EncodeLen(v, n) == IF v < LayoutSwitch THEN LE32(n) ELSE LE64(n)

TokBytes(toks, i, v) ==
    LET hs == HeaderSize(v)
        tok == toks[i]
    IN  CASE tok.k = "open" ->
               EncodeLen(v, Declared(toks, i, hs)) \o EncodeLen(v, tok.nprops)
                 \o EncodeLen(v, Len(tok.props))
                 \o << Len(tok.name) >> \o tok.name \o tok.props
          [] tok.k = "null" -> Zeros(hs)
          [] OTHER -> << >>

\* the version as a writer stores it: four octets, little-endian, two's
\* complement
VersionOctets(v) ==
    << v % 256, (v \div 256) % 256, (v \div 65536) % 256, (v \div 16777216) % 256 >>

\* the octets of document d
DocBytes(d) ==
    LET whole == d.magic \o d.magic2 \o VersionOctets(d.version)
                   \o Concat([i \in 1..Len(d.toks) |-> TokBytes(d.toks, i, d.version)])
                   \o Zeros(HeaderSize(d.version)) \o d.footer
    IN  IF d.cut < 0 THEN whole ELSE Take(whole, d.cut)

\* the in-order walk of document d's node tree
Walk(d) ==
    << StartFbx(d.version) >>
      \o [i \in 1..Len(d.toks) |->
            IF d.toks[i].k = "open"
            THEN StartNode(d.toks[i].name,
                           from_vec_u8(d.toks[i].props, d.toks[i].nprops))
            ELSE EndNode]
      \o << EndFbx >>

MkDoc(family, v, toks, magic, magic2, footer, cut) ==
    [family |-> family, version |-> v, toks |-> toks, magic |-> magic,
     magic2 |-> magic2, footer |-> footer, cut |-> cut]

Versions == {7400, 7500}
Trailers == { [magic2 |-> << 26, 0 >>, footer |-> << >>],
              [magic2 |-> << 0, 7 >>, footer |-> << 248, 90, 140 >>] }

Ascii(s) == \A i \in 1..Len(s) : s[i] < 128

\* well-formed documents (in the 64-bit layout only with octets below 128, so
\* that every length the cursor decodes stays below 2^31)
WellFormedDocs ==
    { MkDoc("wf", v, Tokens(t, n, p, "true"), Magic, tr.magic2, tr.footer, 0 - 1) :
        v \in {7400}, t \in Shapes, n \in 1..MaxNodes, p \in Payloads, tr \in Trailers }
    \cup
    { MkDoc("wf", v, Tokens(t, n, p, "true"), Magic, tr.magic2, << 1, 2, 3 >>, 0 - 1) :
        v \in {7500}, t \in Shapes, n \in 1..MaxNodes,
        p \in {q \in Payloads : Ascii(q.name)}, tr \in Trailers }

\* documents in which one node declares a wrong end_offset
SkewedDocs ==
    { MkDoc("skew", 7400, Tokens(t, n, p, decl), Magic, << 26, 0 >>, << >>, 0 - 1) :
        t \in Shapes \ {<< >>}, n \in 1..MaxNodes,
        p \in {q \in Payloads : q.nprops < 2}, decl \in {"body", "minus1", "plus1"} }

\* documents in which one node's name is not UTF-8
BadNameDocs ==
    { MkDoc("badname", 7400, Tokens(t, n, BadNamePayload, "true"), Magic,
            << 26, 0 >>, << >>, 0 - 1) :
        t \in Shapes \ {<< >>}, n \in 1..MaxNodes }

BaseShape == << "open", "open", "null", "end" >>
BaseToks == Tokens(BaseShape, 1, CHOOSE p \in Payloads : p.nprops = 1 /\ Len(p.name) = 1, "true")
BaseLen(v) == Len(DocBytes(MkDoc("wf", v, BaseToks, Magic, << 26, 0 >>, << 1 >>, 0 - 1)))

\* documents cut short
CutDocs ==
    UNION { { MkDoc("cut", v, BaseToks, Magic, << 26, 0 >>, << 1 >>, n) :
                n \in 0..(BaseLen(v) - 1) } : v \in Versions }

\* documents whose first 21 octets are not the magic
BadMagicDocs ==
    { MkDoc("badmagic", 7400, BaseToks, [Magic EXCEPT ![i] = (@ + d) % 256],
            << 26, 0 >>, << >>, n) :
        i \in 1..MagicLen, d \in {1, 255}, n \in {0 - 1, MagicLen} }

\* documents without nodes whose two octets behind the magic and whose
\* version take other values
HeaderOctets == {0, 1, 26, 255}
HeaderDocs ==
    { MkDoc("header", v, << >>, Magic, << a, b >>, << >>, 0 - 1) :
        a \in HeaderOctets, b \in HeaderOctets, v \in {0 - 1, I32Min, 16909060} }

Docs ==
    WellFormedDocs \cup SkewedDocs \cup BadNameDocs \cup CutDocs \cup BadMagicDocs
      \cup HeaderDocs

(***************************************************************************)
(* The cursor of the model is the record of the parser's variables.        *)
(***************************************************************************)
Cursor ==
    [state |-> state, version |-> version, pos |-> pos,
     end_offset_stack |-> end_offset_stack, consumed |-> consumed]

SetCursor(c) ==
    /\ state' = c.state
    /\ version' = c.version
    /\ pos' = c.pos
    /\ end_offset_stack' = c.end_offset_stack
    /\ consumed' = c.consumed

NoTwin == [source |-> << >>, cur |-> Parser_new, results |-> << >>]

InitWith(d, tw) ==
    /\ doc = d
    /\ source = DocBytes(d)
    /\ consumed = Parser_new.consumed
    /\ state = Parser_new.state
    /\ version = Parser_new.version
    /\ pos = Parser_new.pos
    /\ end_offset_stack = Parser_new.end_offset_stack
    /\ iterating = FALSE
    /\ finished = FALSE
    /\ items = << >>
    /\ results = << >>
    /\ idle_calls = 0
    /\ iters = << >>
    /\ twin = tw

Init == \E d \in Docs : InitWith(d, NoTwin)

(***************************************************************************)
(* reader/mod.rs: EventReader::next, into_iter, Events::next.              *)
(***************************************************************************)
\* one call of Parser::next on the model's cursor
Pull(eof_drains) ==
    LET r == Parser_next(source, Cursor, eof_drains)
    IN  /\ IsTerminal(state) => idle_calls < MaxIdleCalls
        /\ SetCursor(r.cur)
        /\ results' = Append(results, r.res)
        /\ idle_calls' = IF IsTerminal(state) THEN idle_calls + 1 ELSE idle_calls

\* EventReader::next
ReaderNext ==
    /\ ~iterating
    /\ \E eof_drains \in BOOLEAN : Pull(eof_drains)
    /\ UNCHANGED << source, iterating, finished, items, iters, twin, doc >>

\* EventReader::into_iter
IntoIter ==
    /\ ~iterating
    /\ iterating' = TRUE
    /\ finished' = FALSE
    /\ UNCHANGED << source, consumed, state, version, pos, end_offset_stack,
                    items, results, idle_calls, iters, twin, doc >>

\* Option<Result<FbxEvent>>, with the number of calls of Parser::next made
\* when it was returned
None(n) == [some |-> FALSE, res |-> Err(NoError), pulls |-> n]
Some(r, n) == [some |-> TRUE, res |-> r, pulls |-> n]

IsLast(r) == ~r.ok \/ r.ev.kind = "EndFbx"

\* a faulty variant: only EndFbx latches the iterator
Events_next_latching_end_only ==
    /\ iterating
    /\ ~finished
    /\ \E eof_drains \in BOOLEAN : Pull(eof_drains)
    /\ finished' = (results'[Len(results')].ok /\ IsLast(results'[Len(results')]))
    /\ items' = Append(items, Some(results'[Len(results')], Len(results')))
    /\ UNCHANGED << source, iterating, iters, twin, doc >>

\* Events::next
Events_next ==
    /\ iterating
    /\ \/ /\ finished
          /\ Cardinality({i \in 1..Len(items) : ~items[i].some}) < MaxIdleCalls
          /\ items' = Append(items, None(Len(results)))
          /\ UNCHANGED << consumed, state, version, pos, end_offset_stack,
                          results, idle_calls, finished >>
       \/ /\ ~finished
          /\ \E eof_drains \in BOOLEAN : Pull(eof_drains)
          /\ finished' = IsLast(results'[Len(results')])
          /\ items' = Append(items, Some(results'[Len(results')], Len(results')))
    /\ UNCHANGED << source, iterating, iters, twin, doc >>

Next == ReaderNext \/ IntoIter \/ Events_next

Spec == Init /\ [][Next]_vars

(***************************************************************************)
(* Two cursors in lockstep, on two sources that differ only in the octets  *)
(* of one node's property region (the lengths are the same).               *)
(***************************************************************************)
VariantBytes == {1, 65, 105, 200}

\* the byte strings as long as props that differ from it in one octet (in the
\* 64-bit layout only octets below 128, as in WellFormedDocs)
PropVariants(v, props) ==
    { [props EXCEPT ![i] = b] :
        i \in 1..Len(props), b \in {x \in VariantBytes : v >= LayoutSwitch => x < 128} }
      \ {props}

PairPayloads(v) ==
    { p \in Payloads : p.props # << >> /\ (v >= LayoutSwitch => Ascii(p.name)) }

\* a well-formed document of version v and its twins
PairInputsOf(v) ==
    UNION { { [d |-> MkDoc("wf", v, Tokens(t, n, p, "true"), Magic,
                           << 26, 0 >>, << 1, 2, 3 >>, 0 - 1),
               e |-> MkDoc("wf", v, Tokens(t, n, [p EXCEPT !.props = q], "true"), Magic,
                           << 26, 0 >>, << 1, 2, 3 >>, 0 - 1)] :
                q \in PropVariants(v, p.props) } :
            t \in Shapes \ {<< >>}, n \in 1..MaxNodes, p \in PairPayloads(v) }

PairInputs == UNION { PairInputsOf(v) : v \in Versions }

InitPair ==
    \E i \in PairInputs :
        /\ Opens(KindsOf(i.d.toks), Len(i.d.toks)) >= 1
        /\ i.d # i.e
        /\ InitWith(i.d, [source |-> DocBytes(i.e), cur |-> Parser_new, results |-> << >>])

\* EventReader::next, called on both readers
PairReaderNext ==
    /\ \E eof_drains \in BOOLEAN, twin_drains \in BOOLEAN :
         LET r == Parser_next(source, Cursor, eof_drains)
             t == Parser_next(twin.source, twin.cur, twin_drains)
             idle == IsTerminal(state) /\ IsTerminal(twin.cur.state)
         IN  /\ idle => idle_calls < MaxIdleCalls
             /\ SetCursor(r.cur)
             /\ results' = Append(results, r.res)
             /\ twin' = [twin EXCEPT !.cur = t.cur, !.results = Append(@, t.res)]
             /\ idle_calls' = IF idle THEN idle_calls + 1 ELSE idle_calls
    /\ UNCHANGED << source, iterating, finished, items, iters, doc >>

PairNext == PairReaderNext

SpecPair == InitPair /\ [][PairNext]_vars

(***************************************************************************)
(* The cursor and the property iterators of the buffers it has returned,   *)
(* interleaved.  An entry of iters is one PropertiesIter: node is the call *)
(* of next that returned its buffer, it the iterator, yielded what its     *)
(* next has returned, mid whether it was stepped between two pulls that    *)
(* followed its StartNode.                                                 *)
(***************************************************************************)
PropPayloads ==
    { [name |-> << 65 >>, props |-> << 73, 42, 0, 0, 0, 67, 89 >>, nprops |-> 2],
      [name |-> << 66 >>, props |-> << 83, 1, 0, 0, 0, 200, 89, 255, 255 >>, nprops |-> 2],
      [name |-> << 67 >>, props |-> << 73, 42, 0, 0, 0, 90, 1 >>, nprops |-> 3],
      [name |-> << 68 >>,
       props |-> << 105, 1, 0, 0, 0, 0, 0, 0, 0, 4, 0, 0, 0, 7, 0, 0, 0 >>, nprops |-> 1],
      [name |-> << 69 >>, props |-> << 73, 42, 0 >>, nprops |-> 1] }

PropShapes == { << "open", "null", "open", "end" >>, << "open", "open", "end", "null" >> }

\* toks with payload q on node number target
WithPayload(toks, target, q) ==
    [i \in 1..Len(toks) |->
        IF toks[i].k = "open" /\ Opens(KindsOf(toks), i) = target
        THEN [toks[i] EXCEPT !.name = q.name, !.props = q.props, !.nprops = q.nprops]
        ELSE toks[i]]

\* well-formed documents of two nodes, both with properties
PropDocs ==
    { MkDoc("wf", 7400, WithPayload(Tokens(t, 1, p, "true"), 2, q), Magic,
            << 26, 0 >>, << >>, 0 - 1) :
        t \in PropShapes, p \in PropPayloads, q \in PropPayloads }

InitProps == \E d \in PropDocs : InitWith(d, NoTwin)

IsStartNode(r) == r.ok /\ r.ev.kind = "StartNode"

\* DelayedProperties::iter on a buffer the cursor has returned
Properties_iter ==
    /\ Len(iters) < MaxIters
    /\ \E k \in 1..Len(results) :
         /\ IsStartNode(results[k])
         /\ iters' = Append(iters,
                [node |-> k, it |-> DelayedProperties_iter(results[k].ev.properties),
                 yielded |-> << >>, mid |-> FALSE, of_clone |-> FALSE,
                 call |-> NoCall])
    /\ UNCHANGED << source, consumed, state, version, pos, end_offset_stack,
                    iterating, finished, items, results, idle_calls, twin, doc >>

\* one call of next on iterator i, until it has returned None
Step(i) ==
    LET r == PropertiesIter_next(iters[i].it)
    IN  /\ \A k \in 1..Len(iters[i].yielded) : iters[i].yielded[k].some
        /\ iters' = [iters EXCEPT ![i] =
               [@ EXCEPT !.it = r.it,
                         !.yielded = Append(@, r.out),
                         !.mid = @ \/ (Len(results) > iters[i].node /\ ~IsTerminal(state))]]

\* a faulty variant: the iterator takes its octets from the byte source the cursor
\* reads
PropertiesIter_next_from_source ==
    /\ \E i \in 1..Len(iters) :
         /\ Step(i)
         /\ consumed' = consumed + (Len(iters[i].it.buffer) - Len(iters'[i].it.buffer))
    /\ UNCHANGED << source, state, version, pos, end_offset_stack,
                    iterating, finished, items, results, idle_calls, twin, doc >>

\* a faulty variant: the iterators over one buffer share one cursor
Properties_next_shared_cursor ==
    /\ \E i \in 1..Len(iters) :
         LET r == PropertiesIter_next(iters[i].it)
         IN  /\ \A k \in 1..Len(iters[i].yielded) : iters[i].yielded[k].some
             /\ iters' = [j \in 1..Len(iters) |->
                    IF j = i
                    THEN [iters[j] EXCEPT !.it = r.it, !.yielded = Append(@, r.out)]
                    ELSE IF iters[j].node = iters[i].node
                    THEN [iters[j] EXCEPT !.it = r.it]
                    ELSE iters[j]]
    /\ UNCHANGED << source, consumed, state, version, pos, end_offset_stack,
                    iterating, finished, items, results, idle_calls, twin, doc >>

\* <PropertiesIter as Iterator>::next on one of the live iterators
Properties_next ==
    /\ \E i \in 1..Len(iters) : Step(i)
    /\ UNCHANGED << source, consumed, state, version, pos, end_offset_stack,
                    iterating, finished, items, results, idle_calls, twin, doc >>

PropsNext == ReaderNext \/ Properties_iter \/ Properties_next

SpecProps == InitProps /\ [][PropsNext]_vars

\* the cursor and its results after n calls of next on bytes, nothing else
\* being done
RECURSIVE Replay(_, _)
Replay(bytes, n) ==
    IF n = 0 THEN [cur |-> Parser_new, results |-> << >>]
    ELSE LET before == Replay(bytes, n - 1)
             r == Parser_next(bytes, before.cur, FALSE)
         IN  [cur |-> r.cur, results |-> Append(before.results, r.res)]

(***************************************************************************)
(* The writer's side of the property stream: the octets that encode a      *)
(* property value (type code, then the value little-endian; a length       *)
(* prefix for strings and blobs; the 12-octet header for arrays).          *)
(***************************************************************************)
LE16s(x) ==
    LET y == IF x < 0 THEN x + 65536 ELSE x
    IN  << y % 256, y \div 256 >>

LE32s(x) ==
    IF x >= 0 THEN LE32(x)
    ELSE LET y == x + 2147483647 + 1
         IN  << y % 256, (y \div 256) % 256, (y \div 65536) % 256, (y \div 16777216) + 128 >>

\* for x in the range of i32
LE64s(x) == LE32s(x) \o (IF x < 0 THEN << 255, 255, 255, 255 >> ELSE << 0, 0, 0, 0 >>)

\* a bit pattern (most significant octet first) in little-endian order
BitsLE(bits) == [i \in 1..Len(bits) |-> bits[Len(bits) + 1 - i]]

TypeCode(t) ==
    CASE t = "Bool" -> 67
      [] t = "I16" -> 89
      [] t = "I32" -> 73
      [] t = "I64" -> 76
      [] t = "F32" -> 70
      [] t = "F64" -> 68
      [] t = "String" -> 83
      [] t = "Binary" -> 82
      [] t = "VecBool" -> 98
      [] t = "VecI32" -> 105
      [] t = "VecI64" -> 108
      [] t = "VecF32" -> 102
      [] OTHER -> 100

\* the raw little-endian concatenation of an array's elements
RawElements(val) ==
    Concat([i \in 1..Len(val.v) |->
               CASE val.t = "VecBool" -> << IF val.v[i] THEN 1 ELSE 0 >>
                 [] val.t = "VecI32" -> LE32s(val.v[i])
                 [] val.t = "VecI64" -> LE64s(val.v[i])
                 [] OTHER -> BitsLE(val.v[i])])

\* a zlib stream of one stored block holding raw (Len(raw) < 65536)
Deflate(raw) ==
    << 120, 1, 1, Len(raw) % 256, Len(raw) \div 256,
       255 - (Len(raw) % 256), 255 - (Len(raw) \div 256) >> \o raw \o Adler32(raw)

IsArray(val) == val.t \in {"VecBool", "VecI32", "VecI64", "VecF32", "VecF64"}

\* the octets of an array property in the given encoding: 0 plain, 1 zlib,
\* anything else written as the plain payload under that encoding number
WriteArray(val, encoding) ==
    LET raw == RawElements(val)
        payload == IF encoding = 1 THEN Deflate(raw) ELSE raw
    IN  << TypeCode(val.t) >> \o LE32(Len(val.v)) \o LE32(encoding)
          \o LE32(Len(payload)) \o payload

\* the octets of a property that is not an array
Write(val) ==
    << TypeCode(val.t) >> \o
      CASE val.t = "Bool" -> << IF val.v THEN 89 ELSE 84 >>
        [] val.t = "I16" -> LE16s(val.v)
        [] val.t = "I32" -> LE32s(val.v)
        [] val.t = "I64" -> LE64s(val.v)
        [] val.t \in {"F32", "F64"} -> BitsLE(val.v)
        [] OTHER -> LE32(Len(val.v)) \o val.v

(***************************************************************************)
(* Property buffers.  A buffer is written as a sequence of items; an item  *)
(* is [val, bytes, fault]: the octets written and, when fault is "none",   *)
(* the value they encode.  fault "code" is an unknown type code, fault     *)
(* "encoding" an array whose encoding is neither 0 nor 1, fault "short" a  *)
(* scalar cut short.                                                       *)
(***************************************************************************)
MaxProps == 2        \* items of a generated property buffer

Item(val, bytes) == [val |-> val, bytes |-> bytes, fault |-> "none"]
Faulty(fault, bytes) == [val |-> NoProperty.val, bytes |-> bytes, fault |-> fault]

VecI32_123 == MkProperty("VecI32", TRUE, << 1, 2, 3 >>)

\* bit patterns: 1.0f32, -2.5f32, 1.0f64, 0.1f64
F32One == << 63, 128, 0, 0 >>
F32MinusTwoAndHalf == << 192, 32, 0, 0 >>
F64One == << 63, 240, 0, 0, 0, 0, 0, 0 >>
F64Tenth == << 63, 185, 153, 153, 153, 153, 153, 154 >>

I16Samples == << 0, 1, 0 - 1, 258, 32767, 0 - 32768 >>
I32Samples == << 42, 0 - 1, 16909060, 2147483647, I32Min >>
I64Samples == << 1, 0 - 1, 0 - 2, 2147483647, I32Min >>

\* the pools are sequences: values of different variants are never put into
\* one set
ScalarValues ==
    [i \in 1..Len(I16Samples) |-> MkProperty("I16", TRUE, I16Samples[i])]
    \o [i \in 1..Len(I32Samples) |-> MkProperty("I32", TRUE, I32Samples[i])]
    \o [i \in 1..Len(I64Samples) |-> MkProperty("I64", TRUE, I64Samples[i])]
    \o << MkProperty("F32", TRUE, F32One), MkProperty("F32", TRUE, F32MinusTwoAndHalf),
          MkProperty("F64", TRUE, F64One), MkProperty("F64", TRUE, F64Tenth) >>

CoreValues ==
    << MkProperty("Bool", TRUE, TRUE),
       MkProperty("I32", TRUE, 42),
       MkProperty("F32", TRUE, F32One),
       MkProperty("String", TRUE, << 195, 169 >>),
       MkProperty("String", FALSE, << 255, 254 >>),
       MkProperty("Binary", TRUE, << 7 >>) >>

ArrayValues ==
    << VecI32_123,
       MkProperty("VecBool", TRUE, << TRUE, FALSE >>),
       MkProperty("VecI64", TRUE, << 0 - 2 >>),
       MkProperty("VecF32", TRUE, << F32One >>),
       MkProperty("VecF64", TRUE, << F64One, F64Tenth >>),
       MkProperty("VecI32", TRUE, << >>) >>

CoreItems ==
    [i \in 1..Len(CoreValues) |-> Item(CoreValues[i], Write(CoreValues[i]))]
    \o << Item(VecI32_123, WriteArray(VecI32_123, 0)),
          Item(VecI32_123, WriteArray(VecI32_123, 1)),
          Faulty("code", << 90, 1 >>),
          Faulty("encoding", WriteArray(VecI32_123, 2)),
          Faulty("short", << 73, 42, 0 >>) >>

SingleItems ==
    [i \in 1..Len(ScalarValues) |-> Item(ScalarValues[i], Write(ScalarValues[i]))]
    \o [i \in 1..Len(ArrayValues) |-> Item(ArrayValues[i], WriteArray(ArrayValues[i], 0))]
    \o [i \in 1..Len(ArrayValues) |-> Item(ArrayValues[i], WriteArray(ArrayValues[i], 1))]

\* the pool of items, and the sequences of pool indices explored: every
\* sequence of core items up to MaxProps, every scalar and every array
\* alone, before and after a core item, every buffer cut short alone,
\* after a Bool and before an I32, and every Bool and VecBool octet sample
\* before an I32
\* buffers cut short: a Bool without its octet, an F64 with three octets, a
\* length prefix of two octets, a String and a Binary shorter than their
\* length, an array header of three octets, an array shorter than its
\* compressed_length; and arrays whose compressed_length window does not
\* fit their elements: two I32 declared and four octets, one I32 declared
\* and six octets, three Bool declared and two octets, two I32 declared and
\* a zlib stream of four octets
TruncatedItems ==
    << Faulty("short", << 67 >>),
       Faulty("short", << 68, 1, 2, 3 >>),
       Faulty("short", << 83, 1, 0 >>),
       Faulty("short", << 83, 5, 0, 0, 0, 65 >>),
       Faulty("short", << 82, 2, 0, 0, 0, 7 >>),
       Faulty("short", << 105, 0, 0, 0 >>),
       Faulty("short", << 105, 1, 0, 0, 0, 0, 0, 0, 0, 4, 0, 0, 0, 1, 0 >>),
       Faulty("window", << 105 >> \o LE32(2) \o LE32(0) \o LE32(4) \o LE32(1)),
       Faulty("window", << 105 >> \o LE32(1) \o LE32(0) \o LE32(6) \o LE32(1) \o << 9, 9 >>),
       Faulty("window", << 98 >> \o LE32(3) \o LE32(0) \o LE32(2) \o << 1, 0 >>),
       Faulty("window", << 105 >> \o LE32(2) \o LE32(1) \o LE32(Len(Deflate(LE32(1))))
                          \o Deflate(LE32(1))) >>

\* a Bool written with each octet value, and a VecBool of two elements
\* written with each octet value and its complement
BoolOf(octet) == MkProperty("Bool", TRUE, octet % 2 = 1)
VecBoolOf(o1, o2) == MkProperty("VecBool", TRUE, << o1 % 2 = 1, o2 % 2 = 1 >>)
BoolOctetItems ==
    [i \in 1..256 |-> Item(BoolOf(i - 1), << 67, i - 1 >>)]
    \o [i \in 1..256 |->
           Item(VecBoolOf(i - 1, 256 - i),
                << 98 >> \o LE32(2) \o LE32(0) \o LE32(2) \o << i - 1, 256 - i >>)]

Pool == CoreItems \o SingleItems \o TruncatedItems \o BoolOctetItems
CoreIx == 1..Len(CoreItems)
SingleIx == (Len(CoreItems) + 1)..(Len(CoreItems) + Len(SingleItems))
TruncatedIx ==
    (Len(CoreItems) + Len(SingleItems) + 1)
        ..(Len(CoreItems) + Len(SingleItems) + Len(TruncatedItems))
BoolOctetIx == (Len(Pool) - Len(BoolOctetItems) + 1)..Len(Pool)

IndexSeqs ==
    UNION { [1..k -> CoreIx] : k \in 0..MaxProps }
    \cup { << x >> : x \in SingleIx }
    \cup { << x, 1 >> : x \in SingleIx }
    \cup { << Len(CoreValues), x >> : x \in SingleIx }
    \cup { << x >> : x \in TruncatedIx }
    \cup { << 1, x >> : x \in TruncatedIx }
    \cup { << x, 2 >> : x \in TruncatedIx }
    \cup { << x, 2 >> : x \in BoolOctetIx }

ItemsAt(ix) == [i \in 1..Len(ix) |-> Pool[ix[i]]]

BufferOf(its) == Concat([i \in 1..Len(its) |-> its[i].bytes])

\* a document of one node whose property region is written from its and
\* whose header declares count properties
PropsDoc(its, count) ==
    [family |-> "props", version |-> 7400,
     toks |-> << [k |-> "open", name |-> << 78 >>, props |-> BufferOf(its),
                  nprops |-> count, decl |-> "true"],
                 [k |-> "null", name |-> << >>, props |-> << >>,
                  nprops |-> 0, decl |-> "true"] >>,
     magic |-> Magic, magic2 |-> << 26, 0 >>, footer |-> << >>, cut |-> 0 - 1,
     items |-> its]

\* the state after the cursor has returned d's StartNode and iter() has been
\* called on its buffer `fresh` times
InitAfterStartNode(d, fresh) ==
    LET r == Replay(DocBytes(d), 2)
    IN  /\ doc = d
        /\ source = DocBytes(d)
        /\ consumed = r.cur.consumed
        /\ state = r.cur.state
        /\ version = r.cur.version
        /\ pos = r.cur.pos
        /\ end_offset_stack = r.cur.end_offset_stack
        /\ iterating = FALSE
        /\ finished = FALSE
        /\ items = << >>
        /\ results = r.results
        /\ idle_calls = 0
        /\ iters = [i \in 1..fresh |->
                       [node |-> 2,
                        it |-> DelayedProperties_iter(r.results[2].ev.properties),
                        yielded |-> << >>, mid |-> FALSE, of_clone |-> FALSE,
                 call |-> NoCall]]
        /\ twin = NoTwin

InitIter ==
    \E ix \in IndexSeqs :
        \E count \in 0..(Len(ix) + 1) :
            InitAfterStartNode(PropsDoc(ItemsAt(ix), count), 1)

\* one call of next on an iterator that has already returned None
Properties_next_again ==
    /\ \E i \in 1..Len(iters) :
         LET r == PropertiesIter_next(iters[i].it)
             nones == Cardinality({k \in 1..Len(iters[i].yielded) :
                                      ~iters[i].yielded[k].some})
         IN  /\ nones >= 1
             /\ nones <= MaxIdleCalls
             /\ iters' = [iters EXCEPT ![i] =
                    [@ EXCEPT !.it = r.it, !.yielded = Append(@, r.out)]]
    /\ UNCHANGED << source, consumed, state, version, pos, end_offset_stack,
                    iterating, finished, items, results, idle_calls, twin, doc >>

IterNext == Properties_next \/ Properties_next_again

SpecIter == InitIter /\ [][IterNext]_vars

(***************************************************************************)
(* Floating-point conversions.  A float is its IEEE 754 bit pattern, most  *)
(* significant octet first; `as f64` and `as f32` are computed on the      *)
(* binary digits of the pattern.                                           *)
(***************************************************************************)

\* the binary digits of an octet string, most significant first, and back
BitSeq(b) == [i \in 1..(8 * Len(b)) |->
                 (b[(i - 1) \div 8 + 1] \div (2 ^ (7 - ((i - 1) % 8)))) % 2]

RECURSIVE BitsValue(_)
BitsValue(d) == IF d = << >> THEN 0 ELSE 2 * BitsValue(Take(d, Len(d) - 1)) + d[Len(d)]

Octets(d) == [i \in 1..(Len(d) \div 8) |-> BitsValue(SubSeq(d, 8 * i - 7, 8 * i))]

\* the digits of n, width of them
Digits(n, width) == [i \in 1..width |-> (n \div (2 ^ (width - i))) % 2]

AllZero(d) == \A i \in 1..Len(d) : d[i] = 0

\* the position of the first 1 of d (d is not all zero)
FirstOne(d) == CHOOSE i \in 1..Len(d) : d[i] = 1 /\ AllZero(Take(d, i - 1))

F32ExpBits == 8
F32FracBits == 23
F64ExpBits == 11
F64FracBits == 52
F32Bias == 127
F64Bias == 1023

\* `v as f64` for an f32 v: exact
F32ToF64(bits) ==
    LET d == BitSeq(bits)
        sign == << d[1] >>
        e == BitsValue(SubSeq(d, 2, 1 + F32ExpBits))
        frac == SubSeq(d, 2 + F32ExpBits, 32)
        pad == Zeros(F64FracBits - F32FracBits)
    IN  Octets(
          IF e = 2 ^ F32ExpBits - 1
          THEN sign \o Digits(2 ^ F64ExpBits - 1, F64ExpBits) \o frac \o pad
          ELSE IF e > 0
          THEN sign \o Digits(e - F32Bias + F64Bias, F64ExpBits) \o frac \o pad
          ELSE IF AllZero(frac)
          THEN sign \o Zeros(F64ExpBits + F64FracBits)
          ELSE LET p == FirstOne(frac)
               IN  sign \o Digits(1 - F32Bias - p + F64Bias, F64ExpBits)
                        \o Drop(frac, p) \o Zeros(p) \o pad)

\* `v as f32` for an f64 v: rounded to the nearest f32, ties to the even
\* one; beyond the f32 range infinity; a NaN stays a NaN
F64ToF32(bits) ==
    LET d == BitSeq(bits)
        sign == << d[1] >>
        e64 == BitsValue(SubSeq(d, 2, 1 + F64ExpBits))
        frac == SubSeq(d, 2 + F64ExpBits, 64)
        e == e64 - F64Bias + F32Bias
        inf == sign \o Digits(2 ^ F32ExpBits - 1, F32ExpBits) \o Zeros(F32FracBits)
    IN  Octets(
          IF e64 = 2 ^ F64ExpBits - 1
          THEN IF AllZero(frac) THEN inf
               ELSE sign \o Digits(2 ^ F32ExpBits - 1, F32ExpBits)
                         \o << 1 >> \o SubSeq(frac, 2, F32FracBits)
          ELSE IF e64 = 0 THEN sign \o Zeros(F32ExpBits + F32FracBits)
          ELSE IF e >= 2 ^ F32ExpBits - 1 THEN inf
          ELSE IF e < 0 - F32FracBits - 1 THEN sign \o Zeros(F32ExpBits + F32FracBits)
          ELSE
          LET sig == << 1 >> \o frac
              keep == IF e >= 1 THEN F32FracBits + 1 ELSE F32FracBits + e
              kept == BitsValue(Take(sig, keep))
              half == sig[keep + 1] = 1
              sticky == ~AllZero(Drop(sig, keep + 1))
              up == half /\ (sticky \/ kept % 2 = 1)
              m == kept + (IF up THEN 1 ELSE 0)
              magnitude == (IF e >= 1 THEN (e - 1) * (2 ^ F32FracBits) ELSE 0) + m
          IN  IF magnitude >= (2 ^ F32ExpBits - 1) * (2 ^ F32FracBits) THEN inf
              ELSE sign \o Digits(magnitude, F32ExpBits + F32FracBits))

\* the number a bit pattern stands for: its class, its sign, and for a finite
\* number other than zero the exponent of its leading digit and the digits
\* that follow it, without the trailing zeros
Strip(d) ==
    IF AllZero(d) THEN << >>
    ELSE Take(d, CHOOSE i \in 1..Len(d) : d[i] = 1 /\ AllZero(Drop(d, i)))

FloatValue(bits, expbits, bias) ==
    LET d == BitSeq(bits)
        e == BitsValue(SubSeq(d, 2, 1 + expbits))
        frac == Drop(d, 1 + expbits)
    IN  IF e = 2 ^ expbits - 1
        THEN [class |-> IF AllZero(frac) THEN "inf" ELSE "nan",
              sign |-> d[1], exp |-> 0, digits |-> << >>]
        ELSE IF e = 0 /\ AllZero(frac)
        THEN [class |-> "zero", sign |-> d[1], exp |-> 0, digits |-> << >>]
        ELSE IF e > 0
        THEN [class |-> "finite", sign |-> d[1], exp |-> e - bias, digits |-> Strip(frac)]
        ELSE LET p == FirstOne(frac)
             IN  [class |-> "finite", sign |-> d[1], exp |-> 1 - bias - p,
                  digits |-> Strip(Drop(frac, p))]

F32Value(bits) == FloatValue(bits, F32ExpBits, F32Bias)
F64Value(bits) == FloatValue(bits, F64ExpBits, F64Bias)

(***************************************************************************)
(* Accessors of Property.  An Option is [some, v], a Result is [ok, v].    *)
(***************************************************************************)
NoValue == [some |-> FALSE, v |-> 0]
SomeValue(v) == [some |-> TRUE, v |-> v]
OkValue(v) == [ok |-> TRUE, v |-> v]
ErrValue(v) == [ok |-> FALSE, v |-> v]

\* the octets that extend a two's complement number by n octets
SignOctets(v, n) == [i \in 1..n |-> IF v < 0 THEN 255 ELSE 0]

\* a faulty variant: the upper octets filled with zeros
i16_as_i32_zero_extending(v) == I32LE(LE16s(v) \o << 0, 0 >>)

\* `v as i32`, `v as i64`: sign extension
i16_as_i32(v) == I32LE(LE16s(v) \o SignOctets(v, 2))
i16_as_i64(v) == I64LE(LE16s(v) \o SignOctets(v, 6))
i32_as_i64(v) == I64LE(LE32s(v) \o SignOctets(v, 4))

\* a faulty variant: the payload whatever the variant
get_of_any_variant(variant, p) == SomeValue(p.v)

\* implement_getter_get: Some of the payload for the one variant named
get(variant, p) == IF p.t = variant THEN SomeValue(p.v) ELSE NoValue

get_bool(p) == get("Bool", p)
get_i16(p) == get("I16", p)
get_i32(p) == get("I32", p)
get_i64(p) == get("I64", p)
get_f32(p) == get("F32", p)
get_f64(p) == get("F64", p)
get_vec_bool(p) == get("VecBool", p)
get_vec_i32(p) == get("VecI32", p)
get_vec_i64(p) == get("VecI64", p)
get_vec_f32(p) == get("VecF32", p)
get_vec_f64(p) == get("VecF64", p)
get_binary(p) == get("Binary", p)

\* the payload of String is a Result<&str, &[u8]>
get_string_or_raw(p) ==
    IF p.t = "String" THEN SomeValue(IF p.ok THEN OkValue(p.v) ELSE ErrValue(p.v))
    ELSE NoValue

\* Property::get_string: the Ok arm only
get_string(p) == IF p.t = "String" /\ p.ok THEN SomeValue(p.v) ELSE NoValue

as_i32(p) ==
    CASE p.t = "I16" -> SomeValue(i16_as_i32(p.v))
      [] p.t = "I32" -> SomeValue(p.v)
      [] OTHER -> NoValue

as_i64(p) ==
    CASE p.t = "I16" -> SomeValue(i16_as_i64(p.v))
      [] p.t = "I32" -> SomeValue(i32_as_i64(p.v))
      [] p.t = "I64" -> SomeValue(p.v)
      [] OTHER -> NoValue

as_f32(p) ==
    CASE p.t = "F32" -> SomeValue(p.v)
      [] p.t = "F64" -> SomeValue(F64ToF32(p.v))
      [] OTHER -> NoValue

as_f64(p) ==
    CASE p.t = "F32" -> SomeValue(F32ToF64(p.v))
      [] p.t = "F64" -> SomeValue(p.v)
      [] OTHER -> NoValue

as_vec_i64(p) ==
    CASE p.t = "VecI32" -> SomeValue([i \in 1..Len(p.v) |-> i32_as_i64(p.v[i])])
      [] p.t = "VecI64" -> SomeValue(p.v)
      [] OTHER -> NoValue

as_vec_f32(p) ==
    CASE p.t = "VecF32" -> SomeValue(p.v)
      [] p.t = "VecF64" -> SomeValue([i \in 1..Len(p.v) |-> F64ToF32(p.v[i])])
      [] OTHER -> NoValue

as_vec_f64(p) ==
    CASE p.t = "VecF32" -> SomeValue([i \in 1..Len(p.v) |-> F32ToF64(p.v[i])])
      [] p.t = "VecF64" -> SomeValue(p.v)
      [] OTHER -> NoValue

\* the into_ accessors take the value: Ok of the sequence, or Err of the value
\* itself
into_vec_i64(p) ==
    CASE p.t = "VecI32" -> OkValue([i \in 1..Len(p.v) |-> i32_as_i64(p.v[i])])
      [] p.t = "VecI64" -> OkValue(p.v)
      [] OTHER -> ErrValue(p)

into_vec_f32(p) ==
    CASE p.t = "VecF32" -> OkValue(p.v)
      [] p.t = "VecF64" -> OkValue([i \in 1..Len(p.v) |-> F64ToF32(p.v[i])])
      [] OTHER -> ErrValue(p)

into_vec_f64(p) ==
    CASE p.t = "VecF32" -> OkValue([i \in 1..Len(p.v) |-> F32ToF64(p.v[i])])
      [] p.t = "VecF64" -> OkValue(p.v)
      [] OTHER -> ErrValue(p)

Getters ==
    {"get_bool", "get_i16", "get_i32", "get_i64", "get_f32", "get_f64",
     "get_string", "get_string_or_raw", "get_binary", "get_vec_bool",
     "get_vec_i32", "get_vec_i64", "get_vec_f32", "get_vec_f64"}

Converters ==
    {"as_i32", "as_i64", "as_f32", "as_f64", "as_vec_i64", "as_vec_f32",
     "as_vec_f64", "into_vec_i64", "into_vec_f32", "into_vec_f64"}

\* the call p.accessor()
Call(accessor, p) ==
    CASE accessor = "get_bool" -> get_bool(p)
      [] accessor = "get_i16" -> get_i16(p)
      [] accessor = "get_i32" -> get_i32(p)
      [] accessor = "get_i64" -> get_i64(p)
      [] accessor = "get_f32" -> get_f32(p)
      [] accessor = "get_f64" -> get_f64(p)
      [] accessor = "get_string" -> get_string(p)
      [] accessor = "get_string_or_raw" -> get_string_or_raw(p)
      [] accessor = "get_binary" -> get_binary(p)
      [] accessor = "get_vec_bool" -> get_vec_bool(p)
      [] accessor = "get_vec_i32" -> get_vec_i32(p)
      [] accessor = "get_vec_i64" -> get_vec_i64(p)
      [] accessor = "get_vec_f32" -> get_vec_f32(p)
      [] accessor = "get_vec_f64" -> get_vec_f64(p)
      [] accessor = "as_i32" -> as_i32(p)
      [] accessor = "as_i64" -> as_i64(p)
      [] accessor = "as_f32" -> as_f32(p)
      [] accessor = "as_f64" -> as_f64(p)
      [] accessor = "as_vec_i64" -> as_vec_i64(p)
      [] accessor = "as_vec_f32" -> as_vec_f32(p)
      [] accessor = "as_vec_f64" -> as_vec_f64(p)
      [] accessor = "into_vec_i64" -> into_vec_i64(p)
      [] accessor = "into_vec_f32" -> into_vec_f32(p)
      [] OTHER -> into_vec_f64(p)

(***************************************************************************)
(* Several iterators over one buffer.  The cursor has returned the         *)
(* StartNode of a one-node document; iterators are taken from its buffer   *)
(* and from clones of it, and stepped in any order.                        *)
(***************************************************************************)

\* the pool items the shared buffers are written from: I32(42), the zlib
\* array, an unknown type code
ShareIx == {2, 8, 9}

InitShare ==
    \E ix \in [1..MaxProps -> ShareIx] :
        InitAfterStartNode(PropsDoc(ItemsAt(ix), MaxProps), 0)

\* properties.clone().iter(): an iterator over a clone of a node's buffer
Properties_clone_iter ==
    /\ Len(iters) < MaxIters
    /\ \E k \in 1..Len(results) :
         /\ IsStartNode(results[k])
         /\ iters' = Append(iters,
                [node |-> k,
                 it |-> DelayedProperties_iter(
                            DelayedProperties_clone(results[k].ev.properties)),
                 yielded |-> << >>, mid |-> FALSE, of_clone |-> TRUE,
                 call |-> NoCall])
    /\ UNCHANGED << source, consumed, state, version, pos, end_offset_stack,
                    iterating, finished, items, results, idle_calls, twin, doc >>

ShareNext == Properties_iter \/ Properties_clone_iter \/ Properties_next

SpecShare == InitShare /\ [][ShareNext]_vars

(***************************************************************************)
(* Accessor calls.  The cursor has returned the StartNode of a one-node    *)
(* document with one property; an iterator yields it, and accessors are    *)
(* called on the value.                                                    *)
(***************************************************************************)
F32Zero == << 0, 0, 0, 0 >>
F32MinusZero == << 128, 0, 0, 0 >>
F32Tiny == << 0, 0, 0, 1 >>              \* 2^-149, the least subnormal
F32Max == << 127, 127, 255, 255 >>
F32Inf == << 127, 128, 0, 0 >>
F32Tenth == << 61, 204, 204, 205 >>      \* the f32 nearest to 0.1
F32OnePlus == << 63, 128, 0, 2 >>        \* 1 + 2^-22
F32Small == << 0, 0, 2, 0 >>             \* 2^-140, a subnormal
F64MinusTwoAndHalf == << 192, 4, 0, 0, 0, 0, 0, 0 >>
F64Huge == << 71, 240, 0, 0, 0, 0, 0, 0 >>       \* 2^128
F64Tie == << 63, 240, 0, 0, 16, 0, 0, 0 >>       \* 1 + 2^-24
F64TieUp == << 63, 240, 0, 0, 48, 0, 0, 0 >>     \* 1 + 3 * 2^-24
F64Small == << 55, 48, 0, 0, 0, 0, 0, 0 >>       \* 2^-140

F32Samples ==
    << F32Zero, F32MinusZero, F32Tiny, F32Max, F32Inf >>

F64Samples ==
    << F64MinusTwoAndHalf, F64Huge, F64Tie, F64TieUp, F64Small >>

AccessValues ==
    ScalarValues
    \o [i \in 1..Len(F32Samples) |-> MkProperty("F32", TRUE, F32Samples[i])]
    \o [i \in 1..Len(F64Samples) |-> MkProperty("F64", TRUE, F64Samples[i])]
    \o CoreValues \o ArrayValues

WriteAny(val) == IF IsArray(val) THEN WriteArray(val, 0) ELSE Write(val)

InitAccess ==
    \E x \in 1..Len(AccessValues) :
        InitAfterStartNode(
            PropsDoc(<< Item(AccessValues[x], WriteAny(AccessValues[x])) >>, 1), 1)

\* one accessor called on a value an iterator has yielded
Property_call ==
    /\ \E i \in 1..Len(iters) :
         \E k \in 1..Len(iters[i].yielded), accessor \in Getters \cup Converters :
             /\ iters[i].yielded[k].some
             /\ iters' = [iters EXCEPT ![i] =
                    [@ EXCEPT !.call = [accessor |-> accessor, arg |-> k,
                                        out |-> Call(accessor, iters[i].yielded[k].val)]]]
    /\ UNCHANGED << source, consumed, state, version, pos, end_offset_stack,
                    iterating, finished, items, results, idle_calls, twin, doc >>

AccessNext == Properties_next \/ Property_call

SpecAccess == InitAccess /\ [][AccessNext]_vars

(***************************************************************************)
(* Properties of the cursor.                                               *)
(***************************************************************************)
Min(a, b) == IF a < b THEN a ELSE b

KindOf(r) == IF r.ok THEN r.ev.kind ELSE "Err"

Count(seq, k) == Cardinality({i \in 1..Len(seq) : KindOf(seq[i]) = k})

\* document d's expected event kinds: its walk, then EndFbx for ever
WalkKind(d, k) == Walk(d)[Min(k, Len(Walk(d)))].kind

\* C1: for every well-formed input, in either header layout, the events
\* returned by repeated calls of next are the balanced in-order walk of the
\* node tree: StartFbx first, a matching EndNode for every StartNode, EndFbx
\* once all nodes are closed.
C1_EventsBalanced ==
    doc.family = "wf" =>
        \A k \in 1..Len(results) : KindOf(results[k]) = WalkKind(doc, k)

\* C2: once next has returned an error e the parser is Failed(e) and stays
\* so: every later call returns an error equal to e.
C2_ErrorLatches ==
    \A k \in 1..Len(results) :
        ~results[k].ok =>
            /\ state = Failed(results[k].err)
            /\ \A j \in k..Len(results) : results[j] = results[k]

C2_Witness ==
    \E k \in 1..Len(results) :
        /\ ~results[k].ok
        /\ results[k].err.variant = "Io"
        /\ Len(results) >= k + 2
        /\ k > 1

\* C3: once next has returned EndFbx the parser is SuccessfullyFinished and
\* every later call returns EndFbx again.
C3_EndLatches ==
    \A k \in 1..Len(results) :
        results[k] = Ok(EndFbx) =>
            /\ state = SuccessfullyFinished
            /\ \A j \in k..Len(results) : results[j] = Ok(EndFbx)

C3_Witness ==
    \E k \in 1..Len(results) :
        /\ results[k] = Ok(EndFbx)
        /\ Len(results) >= k + 2
        /\ consumed < Len(source)

\* C4: after StartFbx{version: v} the parser has recorded v, and the node
\* record headers that follow are decoded in the layout v selects, so that
\* the first node record of a well-formed document is returned as it was
\* written.
C4_LayoutFollowsVersion ==
    (Len(results) >= 1 /\ results[1].ok) =>
        /\ version = results[1].ev.version
        /\ (doc.family = "wf" /\ Len(results) >= 2) => results[2] = Ok(Walk(doc)[2])

\* C5: when the source supplies at least 21 octets and the first 21 are not
\* the magic, the first call returns InvalidMagic, the parser is Failed, and
\* no event is ever returned.
C5_InvalidMagic ==
    (Len(source) >= MagicLen /\ Take(source, MagicLen) # Magic /\ results # << >>) =>
        /\ state = Failed(InvalidMagic)
        /\ \A k \in 1..Len(results) : results[k] = Err(InvalidMagic)

C5_Witness ==
    /\ Len(source) > MagicLen
    /\ Take(source, 20) = Take(Magic, 20)
    /\ source[MagicLen] # Magic[MagicLen]
    /\ Len(results) >= 2

\* C6: when the source ends before 21 octets, the first call returns an Io
\* error of kind UnexpectedEof, never InvalidMagic and never StartFbx, and the
\* parser is Failed.
C6_ShortMagic ==
    (Len(source) < MagicLen /\ results # << >>) =>
        /\ results[1] = Err(Io("UnexpectedEof", EofError.text))
        /\ state = Failed(results[1].err)

C6_Witness ==
    /\ Len(source) = 20
    /\ source = Take(Magic, 20)
    /\ results # << >>

\* the nodes of document d whose child records extend past the end_offset
\* the node declares
OverrunNodes(d) ==
    LET hs == HeaderSize(d.version)
    IN  { i \in 1..Len(d.toks) :
            /\ d.toks[i].k = "open"
            /\ Match(KindsOf(d.toks), i) > i + 1
            /\ Declared(d.toks, i, hs) < ChildrenEnd(d.toks, i, hs) }

\* the declared end_offset of node i is an offset at which a call of next
\* begins while node i is the innermost open node: right after its own
\* property bytes, or right after one of its children
AtBoundary(d, i) ==
    LET hs == HeaderSize(d.version)
        t == KindsOf(d.toks)
    IN  Declared(d.toks, i, hs) \in
            {BodyStart(d.toks, i, hs)} \cup
            { TrueEnd(d.toks, j, hs) : j \in { x \in (i + 1)..(Match(t, i) - 1) :
                                              t[x] = "open" /\ Depth(t, x) = Depth(t, i) + 1 } }

FirstError(seq) == CHOOSE k \in 1..Len(seq) : ~seq[k].ok /\ \A j \in 1..(k - 1) : seq[j].ok

\* C7 (as claimed): for every input in which some node's child records
\* extend past its declared end_offset the cursor ends with DataError("Node
\* does not end at expected position") carrying the expected and the actual
\* offset, and never returns EndNode for that node.
C7_OverrunIsDataError ==
    \A i \in OverrunNodes(doc) :
        (doc.family = "skew" /\ IsTerminal(state)) =>
            /\ state.tag = "Error"
            /\ state.err = DataError(DoesNotEnd, Declared(doc.toks, i, HeaderSize(doc.version)), pos)
            /\ Count(results, "EndNode") < Count(results, "StartNode")

\* C7 (amended): the same, for the inputs in which the declared end_offset is
\* not an offset at which a call of next begins while the node is the
\* innermost open one; the events before the error are the walk of the
\* records up to the node's last child.
C7_OverrunOffBoundary ==
    \A i \in OverrunNodes(doc) :
        (doc.family = "skew" /\ ~AtBoundary(doc, i) /\ IsTerminal(state)) =>
            /\ state.tag = "Error"
            /\ state.err = DataError(DoesNotEnd, Declared(doc.toks, i, HeaderSize(doc.version)), pos)
            /\ Count(results, "EndNode") < Count(results, "StartNode")
            /\ FirstError(results) > Match(KindsOf(doc.toks), i)
            /\ \A j \in 1..Match(KindsOf(doc.toks), i) : results[j] = Ok(Walk(doc)[j])

C7_Witness ==
    /\ doc.family = "skew"
    /\ \E i \in OverrunNodes(doc) : ~AtBoundary(doc, i)
    /\ state.tag = "Error"
    /\ state.err.variant = "DataError"
    /\ Count(results, "EndNode") >= 1

(***************************************************************************)
(* Properties of the Events iterator.                                      *)
(***************************************************************************)
\* C8: the iterator yields what the reader returns up to and including the
\* first EndFbx or error, which it yields once, as its last item; from then on
\* it is finished, returns None and does not call the reader.
C8_EventsLatch ==
    /\ finished <=> \E k \in 1..Len(items) : items[k].some /\ IsLast(items[k].res)
    /\ \A k \in 1..Len(items) :
         /\ items[k].some => items[k].res = results[items[k].pulls]
         /\ k = 1 => items[k].some
         /\ (k > 1 /\ items[k - 1].some /\ ~IsLast(items[k - 1].res))
              => (items[k].some /\ items[k].pulls = items[k - 1].pulls + 1)
         /\ (k > 1 /\ (~items[k - 1].some \/ IsLast(items[k - 1].res)))
              => (~items[k].some /\ items[k].pulls = items[k - 1].pulls)
    /\ items # << >> => items[Len(items)].pulls = Len(results)

C8_Witness ==
    /\ Len(items) >= 4
    /\ items[Len(items) - 2].some
    /\ ~items[Len(items) - 2].res.ok
    /\ ~items[Len(items) - 1].some
    /\ ~items[Len(items)].some

(***************************************************************************)
(* Properties of the cursor and the property buffers.                      *)
(***************************************************************************)
\* what a result shows of the framing: its kind, and a StartNode's name and
\* declared property count
Framing(r) ==
    [kind |-> KindOf(r), name |-> r.ev.name,
     num_properties |-> r.ev.properties.num_properties]

\* C9: two inputs that differ only in the contents of nodes' property byte
\* regions give the same sequence of event kinds, node names and declared
\* property counts, and the same state, pos and end-offset stack after every
\* call.
C9_PropertyBytesDoNotSteer ==
    /\ Len(twin.results) = Len(results)
    /\ \A k \in 1..Len(results) : Framing(twin.results[k]) = Framing(results[k])
    /\ twin.cur.state = state
    /\ twin.cur.pos = pos
    /\ twin.cur.end_offset_stack = end_offset_stack

\* C9 in the 32-bit layout, the only one the cursor decodes
\* the values among what an iterator has returned
Values(yielded) ==
    [k \in 1..Cardinality({j \in 1..Len(yielded) : yielded[j].some}) |-> yielded[k].val]

IsPrefix(a, b) == Len(a) <= Len(b) /\ a = Take(b, Len(a))

\* C10: however the steps of property iterators are interleaved with the
\* cursor's pulls, the cursor returns the events it returns when no buffer is
\* iterated, every buffer holds the node's property octets, and every iterator
\* yields the values its buffer yields when iterated at once: a prefix of
\* them while it runs, all of them once it has returned None.
C10_BufferIndependent ==
    LET alone == Replay(source, Len(results))
    IN  /\ results = alone.results
        /\ state = alone.cur.state
        /\ pos = alone.cur.pos
        /\ end_offset_stack = alone.cur.end_offset_stack
        /\ \A k \in 1..Len(results) :
             IsStartNode(results[k]) =>
                 results[k].ev.properties =
                     from_vec_u8(doc.toks[k - 1].props, doc.toks[k - 1].nprops)
        /\ \A i \in 1..Len(iters) :
             LET all == Collect(DelayedProperties_iter(results[iters[i].node].ev.properties))
                 got == Values(iters[i].yielded)
             IN  /\ IsPrefix(got, all)
                 /\ Len(got) < Len(iters[i].yielded) => got = all

C10_Witness ==
    /\ state = SuccessfullyFinished
    /\ \E i \in 1..Len(iters), j \in 1..Len(iters) :
         /\ iters[i].node = iters[j].node
         /\ iters[i].mid
         /\ Len(iters[i].yielded) >= 2
         /\ iters[i].yielded[1].some
         /\ ~iters[i].yielded[Len(iters[i].yielded)].some
         /\ Len(iters[j].yielded) = 1
         /\ iters[j].yielded[1] = iters[i].yielded[1]

C9_Below7500 == doc.version < LayoutSwitch => C9_PropertyBytesDoNotSteer

(***************************************************************************)
(* Properties of the property iterator.                                    *)
(***************************************************************************)

\* the declared count of the buffer iterator i reads
num_properties(i) == results[iters[i].node].ev.properties.num_properties

\* the values iterator i has yielded so far
Yields(i) == Values(iters[i].yielded)

\* iterator i has returned None
Ended(i) == \E k \in 1..Len(iters[i].yielded) : ~iters[i].yielded[k].some

\* C11: whatever the octets of a buffer with declared count n, an iterator has
\* yielded at most n values; size_hint is (0, r) with r the remaining count,
\* a call of next never raises r and lowers it by exactly one when it yields a
\* value, and the values still to come are at most r.
C11_CountBoundsYields ==
    \A i \in 1..Len(iters) :
        LET it == iters[i].it
            r == PropertiesIter_next(it)
        IN  /\ Len(Yields(i)) <= num_properties(i)
            /\ Len(Yields(i)) + it.rest_properties <= num_properties(i)
            /\ size_hint(it) = << 0, it.rest_properties >>
            /\ size_hint(r.it)[2] <= size_hint(it)[2]
            /\ r.out.some => size_hint(r.it)[2] = size_hint(it)[2] - 1
            /\ Len(Collect(it)) <= size_hint(it)[2]

\* an iterator over a buffer declaring three properties has yielded one value
\* and then None: fewer values than declared
C11_Witness ==
    \E i \in 1..Len(iters) :
        /\ num_properties(i) = 3
        /\ Len(Yields(i)) = 1
        /\ Ended(i)
        /\ size_hint(iters[i].it) = << 0, 0 >>

\* two Property values are the same variant with the same payload
SameValue(a, b) == a.t = b.t /\ a.ok = b.ok /\ a.v = b.v

\* the items the buffer of the document was written from
WellFormed(its) == \A k \in 1..Len(its) : its[k].fault = "none"

\* what one encoded property decodes to when it is alone in a buffer
Decoded(bytes) == PropertiesIter_next([buffer |-> bytes, rest_properties |-> 1]).out

\* C12: when the buffer is the concatenation of n well-formed encoded
\* properties and declares n, the k-th value an iterator yields is the
\* decoding of the k-th property, after k yields the iterator stands at the
\* first octet of property k + 1, and None is returned after exactly n values.
C12_WellFormedYieldsAll ==
    \A i \in 1..Len(iters) :
        (WellFormed(doc.items) /\ num_properties(i) = Len(doc.items)) =>
            LET n == Len(doc.items)
                k == Len(Yields(i))
            IN  /\ k <= n
                /\ \A j \in 1..k :
                     /\ Decoded(doc.items[j].bytes).some
                     /\ SameValue(Yields(i)[j], Decoded(doc.items[j].bytes).val)
                /\ iters[i].it.buffer = BufferOf(Drop(doc.items, k))
                /\ iters[i].it.rest_properties = n - k
                /\ Ended(i) => k = n
                /\ k < n => PropertiesIter_next(iters[i].it).out.some

\* two different well-formed properties, both yielded, then None
C12_Witness ==
    \E i \in 1..Len(iters) :
        /\ WellFormed(doc.items)
        /\ Len(doc.items) = 2
        /\ num_properties(i) = 2
        /\ doc.items[1].bytes # doc.items[2].bytes
        /\ Len(Yields(i)) = 2
        /\ Ended(i)

Scalars == {"I16", "I32", "I64", "F32", "F64"}

\* item k of the document is reached by a decoder: the items before it are
\* well formed
Reached(k) == \A j \in 1..(k - 1) : doc.items[j].fault = "none"

\* C13: a scalar written as its type code and its little-endian octets is
\* yielded as the variant of that type with the value written, negative
\* integers included; 'I' 2A 00 00 00 is I32(42), 'L' 01 00 .. 00 is I64(1),
\* 'F' 00 00 80 3F is F32(1.0) and 'D' 00 .. F0 3F is F64(1.0).
C13_ScalarRoundTrip ==
    \A i \in 1..Len(iters) :
        \A k \in 1..Len(Yields(i)) :
            LET item == doc.items[k]
                got == Yields(i)[k]
            IN  (Reached(k) /\ item.fault = "none") =>
                    /\ item.val.t \in Scalars => SameValue(got, item.val)
                    /\ item.bytes = << 73, 42, 0, 0, 0 >> =>
                           SameValue(got, MkProperty("I32", TRUE, 42))
                    /\ item.bytes = << 76, 1, 0, 0, 0, 0, 0, 0, 0 >> =>
                           SameValue(got, MkProperty("I64", TRUE, 1))
                    /\ item.bytes = << 89, 0, 128 >> =>
                           SameValue(got, MkProperty("I16", TRUE, 0 - 32768))
                    /\ item.bytes = << 76, 254, 255, 255, 255, 255, 255, 255, 255 >> =>
                           SameValue(got, MkProperty("I64", TRUE, 0 - 2))
                    /\ item.bytes = << 70, 0, 0, 128, 63 >> =>
                           SameValue(got, MkProperty("F32", TRUE, F32One))
                    /\ item.bytes = << 68, 0, 0, 0, 0, 0, 0, 240, 63 >> =>
                           SameValue(got, MkProperty("F64", TRUE, F64One))

\* the negative 16-bit integer 'Y' 00 80 has been yielded as the second value
\* of a buffer
C13_Witness ==
    \E i \in 1..Len(iters) :
        /\ Len(Yields(i)) = 2
        /\ doc.items[2].bytes = << 89, 0, 128 >>
        /\ Yields(i)[2].t = "I16"
        /\ Yields(i)[2].v < 0

\* the iterator stands at an 'S' property whose length field and payload are
\* within the buffer
AtString(it) ==
    /\ it.rest_properties > 0
    /\ Len(it.buffer) >= 5
    /\ it.buffer[1] = 83
    /\ U32LE(SubSeq(it.buffer, 2, 5)) <= Len(it.buffer) - 5

EncodingOf(bytes) == U32LE(SubSeq(bytes, 6, 9))

\* C15: an array written with encoding 1, its payload the zlib stream of the
\* raw little-endian elements, is yielded as the same variant with the same
\* elements as the array written with encoding 0 and the raw elements as
\* payload; for the elements 1, 2, 3 both are VecI32([1, 2, 3]).
C15_ZlibEqualsPlain ==
    \A i \in 1..Len(iters) :
        \A k \in 1..Len(Yields(i)) :
            LET item == doc.items[k]
                plain == Decoded(WriteArray(item.val, 0))
            IN  (Reached(k) /\ item.fault = "none" /\ IsArray(item.val)
                   /\ EncodingOf(item.bytes) = 1) =>
                    /\ plain.some
                    /\ SameValue(Yields(i)[k], plain.val)
                    /\ Yields(i)[k].t = item.val.t
                    /\ Yields(i)[k].v = item.val.v
                    /\ item.val.v = << 1, 2, 3 >> =>
                           SameValue(Yields(i)[k], MkProperty("VecI32", TRUE, << 1, 2, 3 >>))

\* a VecF64 of two elements has been yielded from a zlib payload as the second
\* value of a buffer
C15_Witness ==
    \E i \in 1..Len(iters) :
        /\ Len(Yields(i)) = 2
        /\ Yields(i)[2].t = "VecF64"
        /\ Len(Yields(i)[2].v) = 2
        /\ EncodingOf(doc.items[2].bytes) = 1

\* two sequences of Property values are the same, value by value
SameValues(a, b) == Len(a) = Len(b) /\ \A k \in 1..Len(a) : SameValue(a[k], b[k])

\* the iterator that n calls of next leave behind
RECURSIVE After(_, _)
After(it, n) == IF n = 0 THEN it ELSE After(PropertiesIter_next(it).it, n - 1)

\* C16: every iterator, taken from a node's buffer or from a clone of it,
\* starts at the first property and yields what the buffer's octets and count
\* determine, whatever other iterators over the buffer exist and however far
\* they are: its values are those a lone iterator yields, it stands where its
\* own calls have brought it, and the buffer keeps the octets and the count
\* the cursor gave it.
C16_IteratorsIndependent ==
    \A i \in 1..Len(iters) :
        LET properties == results[iters[i].node].ev.properties
            fresh == DelayedProperties_iter(properties)
            all == Collect(fresh)
            got == Yields(i)
        IN  /\ properties = from_vec_u8(BufferOf(doc.items), doc.toks[1].nprops)
            /\ Len(got) <= Len(all)
            /\ SameValues(got, Take(all, Len(got)))
            /\ iters[i].it = After(fresh, Len(iters[i].yielded))
            /\ Ended(i) => Len(got) = Len(all)

\* an iterator of the buffer has yielded both values and None while an
\* iterator of a clone, created before it, has yielded one value
C16_Witness ==
    \E i \in 1..Len(iters), j \in 1..Len(iters) :
        /\ j < i
        /\ iters[i].node = iters[j].node
        /\ ~iters[i].of_clone
        /\ iters[j].of_clone
        /\ Len(Yields(i)) = 2
        /\ Ended(i)
        /\ Len(iters[j].yielded) = 1
        /\ iters[j].yielded[1].some

\* item k of the document has a type code that is none of the thirteen, or is
\* an array whose header names an encoding other than 0 and 1
Unknown(k) == doc.items[k].fault \in {"code", "encoding"}

\* C18: when the property at 0-based position k has an unknown type code or
\* is an array of unknown encoding, the k properties before it are well
\* formed and the declared count is larger than k, an iterator yields those k
\* values and then None with the remaining count 0, whatever follows in the
\* buffer; the cursor keeps the state, pos and stack it had when it returned
\* the node, and its next call succeeds.
C18_UnknownStopsIteration ==
    \A i \in 1..Len(iters) :
        \A k \in 0..(Len(doc.items) - 1) :
            (Reached(k + 1) /\ Unknown(k + 1) /\ num_properties(i) > k) =>
                LET got == Yields(i)
                    cursor == Replay(source, Len(results))
                IN  /\ Len(got) <= k
                    /\ \A j \in 1..Len(got) :
                         SameValue(got[j], Decoded(doc.items[j].bytes).val)
                    /\ \A j \in 1..Len(iters[i].yielded) :
                         iters[i].yielded[j].some <=> j <= k
                    /\ Len(Collect(DelayedProperties_iter(
                               results[iters[i].node].ev.properties))) = k
                    /\ Ended(i) =>
                           /\ Len(got) = k
                           /\ iters[i].it.rest_properties = 0
                           /\ size_hint(iters[i].it) = << 0, 0 >>
                    /\ state = cursor.cur.state
                    /\ pos = cursor.cur.pos
                    /\ end_offset_stack = cursor.cur.end_offset_stack
                    /\ consumed = cursor.cur.consumed
                    /\ Replay(source, Len(results) + 1).results[Len(results) + 1].ok

\* a well-formed property, then an unknown type code, in a buffer declaring
\* three: one value has been yielded, then None
C18_Witness ==
    \E i \in 1..Len(iters) :
        /\ Len(doc.items) = 2
        /\ doc.items[1].fault = "none"
        /\ doc.items[2].fault = "code"
        /\ num_properties(i) = 3
        /\ Len(Yields(i)) = 1
        /\ Ended(i)

\* an array of unknown encoding first, a well-formed property after it: None
\* has been returned at once
C18_WitnessEncoding ==
    \E i \in 1..Len(iters) :
        /\ Len(doc.items) = 2
        /\ doc.items[1].fault = "encoding"
        /\ doc.items[2].fault = "none"
        /\ num_properties(i) = 2
        /\ Len(Yields(i)) = 0
        /\ Ended(i)

(***************************************************************************)
(* Properties of the accessors.                                            *)
(***************************************************************************)

\* the value the last accessor call of iterator i was made on
Receiver(i) == iters[i].yielded[iters[i].call.arg].val

Called(i, accessor) == iters[i].call.accessor = accessor

\* C17: as_i32 and as_i64 on I16(v) and as_i64 on I32(v) return Some of the
\* same number with the same sign, as_f64 on F32(v) returns Some of an f64
\* that stands for the same number as v, and as_X on the variant X returns
\* Some of the payload unchanged.
C17_WideningPreservesValue ==
    \A i \in 1..Len(iters) :
        LET p == Receiver(i)
            out == iters[i].call.out
        IN  /\ (Called(i, "as_i32") /\ p.t \in {"I16", "I32"}) =>
                   out.some /\ out.v = p.v
            /\ (Called(i, "as_i64") /\ p.t \in {"I16", "I32", "I64"}) =>
                   out.some /\ out.v = p.v
            /\ (Called(i, "as_f64") /\ p.t = "F32") =>
                   /\ out.some
                   /\ Len(out.v) = 8
                   /\ F64Value(out.v) = F32Value(p.v)
                   /\ p.v = F32One => out.v = F64One
            /\ (Called(i, "as_f64") /\ p.t = "F64") => out.some /\ out.v = p.v
            /\ (Called(i, "as_f32") /\ p.t = "F32") => out.some /\ out.v = p.v

\* as_i32 has been called on the I16 value -32768
C17_Witness ==
    \E i \in 1..Len(iters) :
        /\ Called(i, "as_i32")
        /\ Receiver(i).t = "I16"
        /\ Receiver(i).v = 0 - 32768
        /\ iters[i].call.out.some

\* the f32 nearest to each sampled f64 (ties to the even one, infinity beyond
\* the f32 range)
Narrowed(v) ==
    CASE v = F64One -> F32One
      [] v = F64Tenth -> F32Tenth
      [] v = F64MinusTwoAndHalf -> F32MinusTwoAndHalf
      [] v = F64Huge -> F32Inf
      [] v = F64Tie -> F32One
      [] v = F64TieUp -> F32OnePlus
      [] OTHER -> F32Small

\* the narrowing of F64 and the elementwise conversions of VecI32
FloatAndVectorPart(i) ==
    LET p == Receiver(i)
        out == iters[i].call.out
    IN  /\ (Called(i, "as_f32") /\ p.t = "F64") =>
               out.some /\ out.v = Narrowed(p.v)
        /\ (Called(i, "as_vec_i64") /\ p.t = "VecI32") =>
               /\ out.some
               /\ Len(out.v) = Len(p.v)
               /\ \A k \in 1..Len(p.v) : out.v[k] = p.v[k]
        /\ (Called(i, "into_vec_i64") /\ p.t = "VecI32") =>
               /\ out.ok
               /\ Len(out.v) = Len(p.v)
               /\ \A k \in 1..Len(p.v) : out.v[k] = p.v[k]

\* C19: as_f32 on F64(v) returns Some of v narrowed to f32, as_i32 on I64(v)
\* returns Some of v narrowed to i32, and as_vec_i64 and into_vec_i64 on
\* VecI32(xs) return a sequence as long as xs whose elements are those of xs.
C19_ConvertingLattice ==
    \A i \in 1..Len(iters) :
        /\ FloatAndVectorPart(i)
        /\ (Called(i, "as_i32") /\ Receiver(i).t = "I64") =>
               /\ iters[i].call.out.some
               /\ iters[i].call.out.v = Receiver(i).v

\* the statement of C19 without the narrowing of I64
C19_WithoutI64Narrowing == \A i \in 1..Len(iters) : FloatAndVectorPart(i)

\* as_i32 on an I64 returns None
C19_I64IsNotNarrowed ==
    \A i \in 1..Len(iters) :
        (Called(i, "as_i32") /\ Receiver(i).t = "I64") => ~iters[i].call.out.some

\* the variant a get_ accessor names
VariantOf(accessor) ==
    CASE accessor = "get_bool" -> "Bool"
      [] accessor = "get_i16" -> "I16"
      [] accessor = "get_i32" -> "I32"
      [] accessor = "get_i64" -> "I64"
      [] accessor = "get_f32" -> "F32"
      [] accessor = "get_f64" -> "F64"
      [] accessor = "get_string" -> "String"
      [] accessor = "get_string_or_raw" -> "String"
      [] accessor = "get_binary" -> "Binary"
      [] accessor = "get_vec_bool" -> "VecBool"
      [] accessor = "get_vec_i32" -> "VecI32"
      [] accessor = "get_vec_i64" -> "VecI64"
      [] accessor = "get_vec_f32" -> "VecF32"
      [] OTHER -> "VecF64"

\* the payload of p as the accessor's return type carries it
Payload(accessor, p) ==
    IF accessor = "get_string_or_raw"
    THEN (IF p.ok THEN OkValue(p.v) ELSE ErrValue(p.v))
    ELSE p.v

\* a call of an accessor leaves the values the iterator has yielded as they
\* were
CallsLeaveValues ==
    [][\A i \in 1..Len(iters) :
          iters'[i].call # iters[i].call => iters'[i].yielded = iters[i].yielded]_vars

GetIsExact(i, matches) ==
    LET accessor == iters[i].call.accessor
        p == Receiver(i)
        out == iters[i].call.out
    IN  accessor \in Getters =>
            /\ out.some <=> matches
            /\ out.some => out.v = Payload(accessor, p)

\* C20: for each of the fourteen get_ accessors and every value p, get_X(p)
\* is Some of p's payload, unconverted, exactly when p is of the variant X
\* names, and p is left as it was.
C20_GetIffVariant ==
    /\ [](\A i \in 1..Len(iters) :
             GetIsExact(i, Receiver(i).t = VariantOf(iters[i].call.accessor)))
    /\ CallsLeaveValues

\* C20 as amended: get_string is Some of the text exactly when p is a String
\* holding UTF-8 text (its Ok arm) and None for a String holding raw octets;
\* each of the other thirteen is Some of p's payload exactly when p is of the
\* variant it names; no call changes p.
C20_GetIffVariantOrText ==
    /\ [](\A i \in 1..Len(iters) :
             GetIsExact(i, /\ Receiver(i).t = VariantOf(iters[i].call.accessor)
                           /\ iters[i].call.accessor = "get_string" => Receiver(i).ok))
    /\ CallsLeaveValues

\* get_string has been called on a String holding octets that are not UTF-8,
\* and has returned None
C20_Witness ==
    \E i \in 1..Len(iters) :
        /\ Called(i, "get_string")
        /\ Receiver(i).t = "String"
        /\ ~Receiver(i).ok
        /\ ~iters[i].call.out.some

(***************************************************************************)
(* Properties of the steps of the cursor.                                  *)
(***************************************************************************)

\* the step is a call of Parser::next, and what it returned
Called_next == Len(results') = Len(results) + 1
Returned == results'[Len(results')]

\* the octets the byte source hands out in the step
Delivered == SubSeq(source, consumed + 1, consumed')

\* C21: after every event next returns, pos is the number of octets taken
\* from the source since construction: 27 after StartFbx, and after each
\* StartNode the octets of the record header, the name and the property
\* region more than before the call.
C21_PosCountsConsumed ==
    /\ [](\A k \in 1..Len(results) :
             (k = Len(results) /\ results[k].ok) =>
                 /\ pos = consumed
                 /\ k = 1 => pos = MagicLen + 2 + 4)
    /\ [][(Called_next /\ Returned.ok) =>
             /\ pos' = consumed'
             /\ pos' - pos = consumed' - consumed
             /\ Returned.ev.kind = "StartNode" =>
                    pos' = pos + HeaderSize(version) + Len(Returned.ev.name)
                             + Len(Returned.ev.properties.buffer)
             /\ (Returned.ev.kind = "EndFbx" /\ ~IsTerminal(state)) =>
                    pos' = pos + HeaderSize(version)]_vars

\* a StartNode with a name and property octets has been returned after
\* another node, and its EndNode after it
C21_Witness ==
    /\ Len(results) >= 4
    /\ KindOf(results[3]) = "StartNode"
    /\ Len(results[3].ev.name) = 2
    /\ Len(results[3].ev.properties.buffer) = 2
    /\ KindOf(results[Len(results)]) = "EndNode"
    /\ pos = consumed
    /\ pos > HeaderEnd

\* the call reads a record header (no boundary is pending), and the octets
\* of a header are there
ReadsHeader ==
    /\ Called_next
    /\ state = ReadingNodes
    /\ ~(end_offset_stack # << >> /\ Top(end_offset_stack) = pos)
    /\ consumed + HeaderSize(version) <= Len(source)

\* ... and they are the null record
ReadsNullRecord ==
    /\ ReadsHeader
    /\ SubSeq(source, consumed + 1, consumed + HeaderSize(version))
           = Zeros(HeaderSize(version))

\* C22: a null record read while a node is open pops exactly one entry and
\* compares it with pos after the null record: equal gives EndNode, unequal
\* gives a DataError carrying the entry and pos, and the parser has failed.
C22_NullRecordClosesOrFails ==
    [][(ReadsNullRecord /\ end_offset_stack # << >>) =>
          /\ end_offset_stack' = Pop(end_offset_stack)
          /\ pos' = pos + HeaderSize(version)
          /\ IF Top(end_offset_stack) = pos'
             THEN /\ Returned = Ok(EndNode)
                  /\ state' = ReadingNodes
             ELSE /\ ~Returned.ok
                  /\ Returned.err.variant = "DataError"
                  /\ Returned.err = DataError(DoesNotEnd, Top(end_offset_stack), pos')
                  /\ state' = Failed(Returned.err)]_vars

\* a null record was compared with an entry it did not match, two nodes
\* being open: one entry is left
C22_Witness ==
    /\ results # << >>
    /\ ~results[Len(results)].ok
    /\ results[Len(results)].err.variant = "DataError"
    /\ results[Len(results)].err.b = pos
    /\ results[Len(results)].err.a # pos
    /\ Len(end_offset_stack) = 1
    /\ state.tag = "Error"

\* a null record closed the inner of two open nodes
C22_WitnessEndNode ==
    /\ results # << >>
    /\ results[Len(results)] = Ok(EndNode)
    /\ Len(end_offset_stack) = 1
    /\ Top(end_offset_stack) > pos
    /\ consumed >= HeaderSize(version)
    /\ SubSeq(source, consumed - HeaderSize(version) + 1, consumed)
           = Zeros(HeaderSize(version))

\* C23: a null record read with no node open ends the document: the call
\* returns EndFbx and the parser is SuccessfullyFinished, whatever octets
\* follow (none of them is read); a document that is a header and a null
\* record yields exactly StartFbx with its version, then EndFbx (the
\* iterator, taken before any call, yields these two and then None).
C23_NullRecordAtRootEnds ==
    /\ [][(ReadsNullRecord /\ end_offset_stack = << >>) =>
             /\ Returned = Ok(EndFbx)
             /\ state' = SuccessfullyFinished
             /\ end_offset_stack' = << >>
             /\ pos' = pos + HeaderSize(version)
             /\ consumed' = consumed + HeaderSize(version)]_vars
    /\ []((doc.family = "wf" /\ doc.toks = << >>) =>
             /\ \A k \in 1..Len(results) :
                    results[k] = IF k = 1 THEN Ok(StartFbx(doc.version)) ELSE Ok(EndFbx)
             /\ Len(results) >= 2 => state = SuccessfullyFinished
             /\ \A k \in 1..Len(items) : items[1].pulls = 1 =>
                    /\ items[k].some <=> k <= 2
                    /\ k = 1 => items[k].res = Ok(StartFbx(doc.version))
                    /\ k = 2 => items[k].res = Ok(EndFbx))

\* the two events of a document without nodes have been returned by the
\* iterator, a footer following the null record unread
C23_Witness ==
    /\ doc.family = "wf"
    /\ doc.toks = << >>
    /\ Len(items) = 3
    /\ ~items[3].some
    /\ state = SuccessfullyFinished
    /\ consumed = HeaderEnd + HeaderSize(version)
    /\ consumed < Len(source)

\* the call finds the innermost open node's end offset equal to pos
AtEndOffset ==
    /\ Called_next
    /\ state = ReadingNodes
    /\ end_offset_stack # << >>
    /\ Top(end_offset_stack) = pos

\* C24: when the top of the stack equals pos, next pops that one entry and
\* returns EndNode without taking an octet from the source (pos unchanged);
\* a record header is read only when the stack is empty or its top is not
\* pos.
C24_BoundaryClosesWithoutReading ==
    [][/\ AtEndOffset =>
             /\ Returned = Ok(EndNode)
             /\ end_offset_stack' = Pop(end_offset_stack)
             /\ pos' = pos
             /\ consumed' = consumed
             /\ state' = ReadingNodes
       /\ (Called_next /\ state = ReadingNodes /\ consumed' # consumed) =>
             (end_offset_stack = << >> \/ Top(end_offset_stack) # pos)
       /\ ReadsHeader =>
             /\ consumed' >= consumed + HeaderSize(version)
             /\ pos' >= pos + HeaderSize(version)]_vars

\* a node was closed right after its StartNode, nothing read in between,
\* while records follow in the source
C24_Witness ==
    /\ Len(results) = 3
    /\ KindOf(results[2]) = "StartNode"
    /\ results[3] = Ok(EndNode)
    /\ results[2].ev.name # << >>
    /\ results[2].ev.properties.buffer # << >>
    /\ pos = HeaderEnd + HeaderSize(version) + Len(results[2].ev.name)
               + Len(results[2].ev.properties.buffer)
    /\ consumed = pos
    /\ end_offset_stack = << >>
    /\ consumed + HeaderSize(version) <= Len(source)

\* document d with every node closed the same way: by a null record
\* ("null") or by its end offset alone ("end"); the end offsets are those of
\* the new layout
Reclosed(d, closing) ==
    [d EXCEPT !.toks = [i \in 1..Len(@) |->
                          IF @[i].k = "open" THEN @[i] ELSE [@[i] EXCEPT !.k = closing]]]

\* C25: a node closed by its end offset alone gives the same events as the
\* node closed by a null record, also where the last child ends where its
\* parent ends: the results on a document equal those on the document with
\* every closing made explicit and with every closing made implicit.
C25_ClosingsEquivalent ==
    doc.family = "wf" =>
        \A closing \in {"null", "end"} :
            results = Replay(DocBytes(Reclosed(doc, closing)), Len(results)).results

C25_Below7500 == doc.version < LayoutSwitch => C25_ClosingsEquivalent

\* a child closed at its end offset inside a parent closed by a null
\* record, the document read to its end
C25_Witness ==
    /\ doc.family = "wf"
    /\ doc.version < LayoutSwitch
    /\ KindsOf(doc.toks) = << "open", "open", "end", "null" >>
    /\ Len(results) = 6
    /\ results[Len(results)] = Ok(EndFbx)
    /\ Reclosed(doc, "end") # doc
    /\ Reclosed(doc, "null") # doc

\* the last child ends where its parent ends, neither with a null record:
\* two EndNode in a row
C25_WitnessConsecutive ==
    /\ doc.family = "wf"
    /\ doc.version < LayoutSwitch
    /\ KindsOf(doc.toks) = << "open", "open", "end", "end" >>
    /\ Len(results) = 6
    /\ results[4] = Ok(EndNode)
    /\ results[5] = Ok(EndNode)
    /\ results[6] = Ok(EndFbx)

\* the record header standing at the source's read position, in the layout
\* the parser reads with
HeaderHere ==
    LET w == FieldSizes(version)[1]
        b == SubSeq(source, consumed + 1, consumed + HeaderSize(version))
    IN  [end_offset |-> LengthField(b, w, 1),
         num_properties |-> LengthField(b, w, 2),
         property_byte_len |-> LengthField(b, w, 3),
         name_len |-> b[3 * w + 1]]

\* the octets of the name and of the property region that follow it
NameHere ==
    SubSeq(source, consumed + HeaderSize(version) + 1,
           consumed + HeaderSize(version) + HeaderHere.name_len)
PropertiesHere ==
    SubSeq(source, consumed + HeaderSize(version) + HeaderHere.name_len + 1,
           consumed + HeaderSize(version) + HeaderHere.name_len
             + HeaderHere.property_byte_len)

\* C26: a header other than the null record starts a node: its end_offset
\* is pushed, name_len octets are read as the name and property_byte_len
\* octets as the property buffer, and StartNode carries the name, the buffer
\* octet for octet, and the header's num_properties; a name that is not
\* UTF-8 fails the call with Utf8Error.
C26_StartNodeCarriesRecord ==
    [][(ReadsHeader /\ ~ReadsNullRecord) =>
          LET h == HeaderHere
              after_name == consumed + HeaderSize(version) + h.name_len
          IN  /\ (after_name <= Len(source) /\ ~IsUtf8(NameHere)) =>
                    /\ ~Returned.ok
                    /\ Returned.err = Utf8Error(Utf8ValidUpTo(NameHere))
                    /\ state' = Failed(Returned.err)
              /\ (after_name + h.property_byte_len <= Len(source) /\ IsUtf8(NameHere)) =>
                    /\ Returned = Ok(StartNode(NameHere,
                                               [buffer |-> PropertiesHere,
                                                num_properties |-> h.num_properties]))
                    /\ end_offset_stack' = Append(end_offset_stack, h.end_offset)
                    /\ pos' = pos + HeaderSize(version) + h.name_len + h.property_byte_len
                    /\ consumed' = after_name + h.property_byte_len
                    /\ state' = ReadingNodes]_vars

\* a node with a name, two declared properties and two property octets has
\* been started inside another node
C26_Witness ==
    /\ Len(results) = 3
    /\ results[3] = Ok(StartNode(<< 67 >>, from_vec_u8(<< 90, 1 >>, 2)))
    /\ Len(end_offset_stack) = 2
    /\ SubSeq(source, consumed - 2, consumed) = << 67, 90, 1 >>

\* a name that is not UTF-8 has failed the call
C26_WitnessUtf8 ==
    /\ results # << >>
    /\ ~results[Len(results)].ok
    /\ results[Len(results)].err.variant = "Utf8Error"
    /\ state.tag = "Error"

\* C27: after every call of next the number of entries on the stack is the
\* number of StartNode returned so far minus the number of EndNode returned
\* so far.
C27_DepthIsStartsMinusEnds ==
    Len(end_offset_stack) = Count(results, "StartNode") - Count(results, "EndNode")

\* the nodes open according to the events returned so far
OpenNodes == Count(results, "StartNode") - Count(results, "EndNode")

\* the error of the call that failed
FailedWith == results[FirstError(results)].err.variant

\* C27 (as the code has it): the depth of the stack is the number of
\* StartNode minus the number of EndNode returned so far as long as no call
\* has failed; a call that fails has already pushed the entry of the node
\* whose name or properties it could not read, or already popped the entry
\* the null record did not match, and the stack keeps that depth.
C27_DepthUntilFailure ==
    /\ state.tag # "Error" => Len(end_offset_stack) = OpenNodes
    /\ state.tag = "Error" =>
          CASE FailedWith = "DataError" -> Len(end_offset_stack) = OpenNodes - 1
            [] FailedWith = "Utf8Error" -> Len(end_offset_stack) = OpenNodes + 1
            [] FailedWith = "Io" -> Len(end_offset_stack) \in {OpenNodes, OpenNodes + 1}
            [] OTHER -> Len(end_offset_stack) = OpenNodes

\* nothing has failed, and a second node has been opened after the first
\* was closed
C27_Witness ==
    /\ state = ReadingNodes
    /\ Len(end_offset_stack) = 1
    /\ Count(results, "StartNode") = 2
    /\ Count(results, "EndNode") = 1
    /\ KindOf(results[Len(results)]) = "StartNode"

\* the call that could not read a node's properties left the node's entry
C27_WitnessAfterFailure ==
    /\ state.tag = "Error"
    /\ FailedWith = "Io"
    /\ OpenNodes = 1
    /\ Len(end_offset_stack) = 2

(***************************************************************************)
(* Properties of the property iterator: short buffers, Bool, arrays.       *)
(***************************************************************************)

\* iterator i makes a call of next in the step
Calls_next(i) ==
    /\ i <= Len(iters')
    /\ Len(iters'[i].yielded) = Len(iters[i].yielded) + 1

\* what that call returned
Returned_by(i) == iters'[i].yielded[Len(iters'[i].yielded)]

ScalarCodes == {89, 73, 76, 70, 68}
ArrayCodes == {98, 105, 108, 102, 100}

\* buffer b holds too few octets for the property that starts it: for the
\* type code, the Bool octet, the scalar, the length prefix, the octets of
\* the declared length, the array header, the compressed_length octets
TooShort(b) ==
    \/ Len(b) < 1
    \/ /\ Len(b) >= 1
       /\ \/ b[1] = 67 /\ Len(b) < 1 + 1
          \/ b[1] \in ScalarCodes /\ Len(b) < 1 + PrimitiveSize(b[1])
          \/ b[1] \in {83, 82} /\ Len(b) < 1 + 4
          \/ /\ b[1] \in {83, 82}
             /\ Len(b) >= 1 + 4
             /\ Len(b) - (1 + 4) < U32LE(SubSeq(b, 2, 5))
          \/ b[1] \in ArrayCodes /\ Len(b) < 1 + ArrayHeaderLength
          \/ /\ b[1] \in ArrayCodes
             /\ Len(b) >= 1 + ArrayHeaderLength
             /\ Len(b) - (1 + ArrayHeaderLength) < U32LE(SubSeq(b, 10, 13))

\* C28: when the buffer holds too few octets for the type code, a scalar, a
\* length prefix, the declared String or Binary length, the array header or
\* the declared compressed_length, next returns None and sets the remaining
\* count to 0; every later call returns None, size_hint is (0, Some(0)), and
\* no value is yielded after the first None.
C28_ShortBufferEndsIteration ==
    /\ [][\A i \in 1..Len(iters) :
             (Calls_next(i) /\ iters[i].it.rest_properties > 0
                 /\ TooShort(iters[i].it.buffer)) =>
                 /\ ~Returned_by(i).some
                 /\ iters'[i].it.rest_properties = 0
                 /\ size_hint(iters'[i].it) = << 0, 0 >>]_vars
    /\ [](\A i \in 1..Len(iters) :
             /\ \A k \in 1..Len(iters[i].yielded) :
                    ~iters[i].yielded[k].some =>
                        \A j \in k..Len(iters[i].yielded) : ~iters[i].yielded[j].some
             /\ Ended(i) =>
                    /\ iters[i].it.rest_properties = 0
                    /\ size_hint(iters[i].it) = << 0, 0 >>
                    /\ ~PropertiesIter_next(iters[i].it).out.some)

\* a String shorter than its declared length ended the iteration after one
\* value, one more property being declared; next was called again
C28_Witness ==
    \E i \in 1..Len(iters) :
        /\ Len(doc.items) = 2
        /\ doc.items[2].bytes = << 83, 5, 0, 0, 0, 65 >>
        /\ num_properties(i) = 3
        /\ Len(iters[i].yielded) = 3
        /\ iters[i].yielded[1].some
        /\ ~iters[i].yielded[2].some
        /\ ~iters[i].yielded[3].some
        /\ iters[i].it.rest_properties = 0
        /\ TooShort(doc.items[2].bytes)

\* the call of iterator i stands at a 'C' property whose octet is there
AtBool(i) ==
    /\ Calls_next(i)
    /\ iters[i].it.rest_properties > 0
    /\ Len(iters[i].it.buffer) >= 2
    /\ iters[i].it.buffer[1] = 67

\* ... at a 'b' array in plain encoding whose window holds its elements
AtPlainVecBool(i) ==
    LET b == iters[i].it.buffer
    IN  /\ Calls_next(i)
        /\ iters[i].it.rest_properties > 0
        /\ Len(b) >= 1 + ArrayHeaderLength
        /\ b[1] = 98
        /\ U32LE(SubSeq(b, 6, 9)) = 0
        /\ U32LE(SubSeq(b, 10, 13)) <= Len(b) - (1 + ArrayHeaderLength)
        /\ U32LE(SubSeq(b, 2, 5)) <= U32LE(SubSeq(b, 10, 13))

\* C29: a 'C' property with payload octet b, whatever b is, yields
\* Bool(b odd) and is counted, the iteration going on behind it; 'T' and 'Y'
\* decode by the same rule; the elements of a VecBool are decoded by the
\* same rule.
C29_BoolIsLowBit ==
    [][\A i \in 1..Len(iters) :
          /\ AtBool(i) =>
                LET b == iters[i].it.buffer[2]
                IN  /\ Returned_by(i).some
                    /\ Returned_by(i).val.t = "Bool"
                    /\ Returned_by(i).val.v = (b % 2 = 1)
                    /\ b = 84 => Returned_by(i).val.v = FALSE
                    /\ b = 89 => Returned_by(i).val.v = TRUE
                    /\ iters'[i].it.rest_properties = iters[i].it.rest_properties - 1
                    /\ iters'[i].it.buffer = Drop(iters[i].it.buffer, 2)
          /\ AtPlainVecBool(i) =>
                LET b == iters[i].it.buffer
                    n == U32LE(SubSeq(b, 2, 5))
                IN  /\ Returned_by(i).some
                    /\ Returned_by(i).val.t = "VecBool"
                    /\ Returned_by(i).val.v
                         = [k \in 1..n |-> b[1 + ArrayHeaderLength + k] % 2 = 1]
                    /\ iters'[i].it.rest_properties = iters[i].it.rest_properties - 1]_vars

\* a Bool written as the octet FE was yielded as false, and the I32 behind
\* it after that
C29_Witness ==
    \E i \in 1..Len(iters) :
        /\ Len(doc.items) = 2
        /\ doc.items[1].bytes = << 67, 254 >>
        /\ Len(iters[i].yielded) = 2
        /\ iters[i].yielded[1] = SomeProperty(MkProperty("Bool", TRUE, FALSE))
        /\ iters[i].yielded[2].some
        /\ iters[i].yielded[2].val.t = "I32"

\* a VecBool written as the octets 03 and FC was yielded as [true, false]
C29_WitnessVecBool ==
    \E i \in 1..Len(iters) :
        /\ Len(doc.items) = 2
        /\ Len(doc.items[1].bytes) = 1 + ArrayHeaderLength + 2
        /\ doc.items[1].bytes[1] = 98
        /\ SubSeq(doc.items[1].bytes, 1 + ArrayHeaderLength + 1, 1 + ArrayHeaderLength + 2)
              = << 3, 252 >>
        /\ Len(iters[i].yielded) >= 1
        /\ iters[i].yielded[1].some
        /\ iters[i].yielded[1].val.t = "VecBool"
        /\ iters[i].yielded[1].val.v = << TRUE, FALSE >>

\* the call of iterator i stands at an array property whose header and
\* compressed_length octets are in the buffer
AtArray(i) ==
    LET b == iters[i].it.buffer
    IN  /\ Calls_next(i)
        /\ iters[i].it.rest_properties > 0
        /\ Len(b) >= 1 + ArrayHeaderLength
        /\ b[1] \in ArrayCodes
        /\ U32LE(SubSeq(b, 10, 13)) <= Len(b) - (1 + ArrayHeaderLength)

\* C30: the elements of an array are read from the compressed_length octets
\* behind the 12-octet header and from nothing else: what the call returns
\* is what it returns when nothing follows those octets; when they cannot
\* supply num_elements elements the iteration ends, whatever follows; and
\* after an array has been yielded the iterator stands 1 + 12 +
\* compressed_length octets behind the array's type code.
C30_ArrayStaysInWindow ==
    [][\A i \in 1..Len(iters) :
          AtArray(i) =>
             LET b == iters[i].it.buffer
                 num_elements == U32LE(SubSeq(b, 2, 5))
                 encoding == U32LE(SubSeq(b, 6, 9))
                 compressed_length == U32LE(SubSeq(b, 10, 13))
                 past == 1 + ArrayHeaderLength + compressed_length
                 window == SubSeq(b, 1 + ArrayHeaderLength + 1, past)
                 size == ElementSize(b[1])
                 alone == PropertiesIter_next([buffer |-> Take(b, past),
                                               rest_properties |-> 1]).out
             IN  /\ Returned_by(i).some = alone.some
                 /\ Returned_by(i).some => Returned_by(i).val = alone.val
                 /\ Returned_by(i).some =>
                       /\ iters'[i].it.buffer = Drop(b, past)
                       /\ iters'[i].it.rest_properties = iters[i].it.rest_properties - 1
                 /\ (encoding = 0 /\ num_elements * size > compressed_length) =>
                       /\ ~Returned_by(i).some
                       /\ iters'[i].it.rest_properties = 0
                 /\ (encoding = 0 /\ num_elements * size <= compressed_length) =>
                       /\ Returned_by(i).some
                       /\ Returned_by(i).val.t = ArrayVariant(b[1])
                       /\ Returned_by(i).val.v
                            = [k \in 1..num_elements |->
                                 Element(b[1], SubSeq(window, (k - 1) * size + 1,
                                                      k * size))]]_vars

\* an array of one I32 in a window of six octets was yielded, and the I32
\* property behind the window after it
C30_Witness ==
    \E i \in 1..Len(iters) :
        /\ Len(doc.items) = 2
        /\ doc.items[1].fault = "window"
        /\ Len(doc.items[1].bytes) = 1 + ArrayHeaderLength + 6
        /\ Len(iters[i].yielded) = 2
        /\ iters[i].yielded[1] = SomeProperty(MkProperty("VecI32", TRUE, << 1 >>))
        /\ iters[i].yielded[2] = SomeProperty(MkProperty("I32", TRUE, 42))

\* an array of two I32 in a window of four octets ended the iteration
\* although the octets of an I32 property follow the window
C30_WitnessShortWindow ==
    \E i \in 1..Len(iters) :
        /\ Len(doc.items) = 2
        /\ doc.items[1].bytes = << 105 >> \o LE32(2) \o LE32(0) \o LE32(4) \o LE32(1)
        /\ doc.items[2].bytes = << 73, 42, 0, 0, 0 >>
        /\ num_properties(i) = 2
        /\ Len(iters[i].yielded) = 1
        /\ ~iters[i].yielded[1].some
        /\ iters[i].it.rest_properties = 0

(***************************************************************************)
(* Properties of the cursor: failed reads, the header, terminal states,    *)
(* balance and termination.                                                *)
(***************************************************************************)

\* the sizes of the primitive reads a call makes from the state it starts
\* in, in order, as far as the source lets them be known: the magic, the two
\* octets and the version; or the fields of a record header and, once the
\* header is there and is not the null record, the name and the properties
ReadSizes ==
    IF state.tag = "ReadingMagic" THEN << MagicLen, 2, 4 >>
    ELSE IF consumed + HeaderSize(version) > Len(source)
              \/ SubSeq(source, consumed + 1, consumed + HeaderSize(version))
                    = Zeros(HeaderSize(version))
    THEN FieldSizes(version)
    ELSE FieldSizes(version) \o << HeaderHere.name_len, HeaderHere.property_byte_len >>

\* the reads of the call that find their octets, and the octets they take
Completed == ReadsDone(source, consumed, ReadSizes)
CompletedSize == Sum(Take(ReadSizes, Completed))

\* the call makes a read the source cannot serve: it is not answered from
\* the stack or from a terminal state, and no read before the short one
\* ends it with another error (a wrong magic, a name that is not UTF-8)
FailsReading ==
    /\ Called_next
    /\ ~IsTerminal(state)
    /\ ~(state = ReadingNodes /\ end_offset_stack # << >>
            /\ Top(end_offset_stack) = pos)
    /\ Completed < Len(ReadSizes)
    /\ (state.tag = "ReadingMagic" /\ Completed >= 1) =>
           SubSeq(source, consumed + 1, consumed + MagicLen) = Magic
    /\ (state = ReadingNodes /\ Completed = 5) => IsUtf8(NameHere)

\* C31: a read the source cannot serve fails the call with Error::Io of the
\* source's error kind, and pos is then its value at entry plus the sizes of
\* the reads of the call that succeeded before it; every Io failure of a
\* call is of that kind; pos never decreases.
C31_FailedReadLeavesPos ==
    [][/\ FailsReading =>
             /\ ~Returned.ok
             /\ Returned.err = Io("UnexpectedEof", "failed to fill whole buffer")
             /\ pos' = pos + CompletedSize
             /\ state' = Failed(Returned.err)
       /\ (Called_next /\ ~IsTerminal(state) /\ ~Returned.ok
              /\ Returned.err.variant = "Io") => FailsReading
       /\ pos' >= pos]_vars

\* the source ended inside a record header behind a node: the call failed
\* with the fields read before the short one counted in pos
C31_Witness ==
    /\ Len(results) >= 3
    /\ KindOf(results[Len(results) - 1]) \in {"StartNode", "EndNode"}
    /\ ~results[Len(results)].ok
    /\ results[Len(results)].err = Io("UnexpectedEof", "failed to fill whole buffer")
    /\ state.tag = "Error"
    /\ pos = Replay(source, Len(results) - 1).cur.pos + 2 * 4
    /\ pos < Len(source)

\* the first call finds the magic and the six octets behind it
ReadsHeaderOfDocument ==
    /\ Called_next
    /\ state.tag = "ReadingMagic"
    /\ Len(source) >= MagicLen + 2 + 4
    /\ SubSeq(source, 1, MagicLen) = Magic

\* the signed value of the four octets behind the magic and the two octets
VersionHere ==
    source[MagicLen + 3] + 256 * source[MagicLen + 4] + 65536 * source[MagicLen + 5]
      + 16777216 * (IF source[MagicLen + 6] >= 128
                    THEN source[MagicLen + 6] - 256 ELSE source[MagicLen + 6])

\* C32: the two octets behind the magic are not checked: whatever they are,
\* the first call takes exactly 27 octets, returns StartFbx with the
\* little-endian signed value of the octets at offsets 23..26, and leaves
\* the parser in ReadingNodes.
C32_TwoOctetsNotValidated ==
    [][ReadsHeaderOfDocument =>
          /\ Returned = Ok(StartFbx(VersionHere))
          /\ (doc.magic = Magic /\ doc.cut < 0) => Returned.ev.version = doc.version
          /\ consumed' = MagicLen + 2 + 4
          /\ pos' = MagicLen + 2 + 4
          /\ state' = ReadingNodes
          /\ end_offset_stack' = << >>]_vars

\* the octets FF 01 stand behind the magic and the version octets are
\* FF FF FF FF: StartFbx{-1} was returned
C32_Witness ==
    /\ Len(results) = 1
    /\ SubSeq(source, MagicLen + 1, MagicLen + 2) = << 255, 1 >>
    /\ SubSeq(source, MagicLen + 3, MagicLen + 6) = << 255, 255, 255, 255 >>
    /\ results[1] = Ok(StartFbx(0 - 1))
    /\ state = ReadingNodes
    /\ pos = 27

\* C33: in SuccessfullyFinished and in Failed a call of next takes no octet
\* from the source and leaves state, version, pos and the stack as they are
\* (it returns EndFbx, or the stored error, again); so what follows the null
\* record that ended the document is never read.
C33_TerminalCallsReadNothing ==
    /\ [][(Called_next /\ IsTerminal(state)) =>
             /\ consumed' = consumed
             /\ state' = state
             /\ version' = version
             /\ pos' = pos
             /\ end_offset_stack' = end_offset_stack
             /\ Returned = IF state = SuccessfullyFinished
                           THEN Ok(EndFbx) ELSE Err(state.err)]_vars
    /\ [](state = SuccessfullyFinished =>
             LET k == CHOOSE j \in 1..Len(results) :
                          /\ results[j] = Ok(EndFbx)
                          /\ \A h \in 1..(j - 1) : results[h] # Ok(EndFbx)
                 then == Replay(source, k).cur
             IN  /\ consumed = then.consumed
                 /\ pos = then.pos
                 /\ SubSeq(source, consumed - HeaderSize(version) + 1, consumed)
                       = Zeros(HeaderSize(version)))

\* calls were made after EndFbx, and the footer is still unread
C33_Witness ==
    /\ state = SuccessfullyFinished
    /\ idle_calls = MaxIdleCalls
    /\ Len(results) >= 2 + MaxIdleCalls
    /\ doc.footer # << >>
    /\ consumed + Len(doc.footer) <= Len(source)
    /\ SubSeq(source, Len(source) - Len(doc.footer) + 1, Len(source)) = doc.footer
    /\ consumed <= Len(source) - Len(doc.footer)

\* calls were made after a failure
C33_WitnessFailed ==
    /\ state.tag = "Error"
    /\ idle_calls = MaxIdleCalls
    /\ consumed < Len(source)

\* the first k results
Upto(k) == SubSeq(results, 1, k)

\* C34: whatever the input, no prefix of the results has more EndNode than
\* StartNode; EndNode is never returned by a call that finds the stack
\* empty, and EndFbx is returned only with the stack empty; so at EndFbx the
\* StartNode and EndNode returned are equal in number.
C34_EventsNeverOverclose ==
    /\ [](\A k \in 1..Len(results) :
             /\ Count(Upto(k), "EndNode") <= Count(Upto(k), "StartNode")
             /\ results[k] = Ok(EndFbx) =>
                    Count(Upto(k), "EndNode") = Count(Upto(k), "StartNode"))
    /\ [][/\ (Called_next /\ Returned = Ok(EndNode)) =>
                /\ end_offset_stack # << >>
                /\ end_offset_stack' = Pop(end_offset_stack)
          /\ (Called_next /\ Returned = Ok(EndFbx)) =>
                /\ end_offset_stack = << >>
                /\ end_offset_stack' = << >>]_vars

\* a document whose first node declares an end offset that closes it early
\* was read to EndFbx: the events returned are balanced all the same
C34_Witness ==
    /\ doc.family = "skew"
    /\ results # << >>
    /\ results[Len(results)] = Ok(EndFbx)
    /\ Count(results, "StartNode") = 2
    /\ Count(results, "EndNode") = 2
    /\ \E k \in 1..Len(results) : KindOf(results[k]) # WalkKind(doc, k)

\* The caller goes on calling next (directly, or through the iterator once
\* into_iter has been called) until a terminal state is reached.
\* The documents are a few of each family of the generator: two nested and
\* two sibling nodes closed in both ways, in both versions; a node closed
\* early by its declared end offset; a name that is not UTF-8; two
\* truncations; a wrong magic; other octets behind the magic.
LiveShapes == { << "open", "open", "end", "null" >>, << "open", "null", "open", "end" >> }
LiveDocs ==
    { d \in Docs :
        /\ d.family \in {"wf", "skew", "badname"} =>
               /\ KindsOf(d.toks) \in LiveShapes
               /\ d.toks[1].nprops = (IF d.family = "badname" THEN 0 ELSE 1)
               /\ d.toks[1].name # << 97 >>
        /\ d.family = "wf" => d.footer # << >> /\ d.magic2 = << 26, 0 >>
        /\ d.family = "skew" => d.toks[1].decl = "body"
        /\ d.family = "cut" => d.version < LayoutSwitch /\ d.cut \in {30, 45}
        /\ d.family = "badmagic" => d.magic[1] = 76 /\ d.cut < 0
        /\ d.family = "header" => d.version = 0 - 1 /\ d.magic2 = << 255, 255 >> }

InitLive == \E d \in LiveDocs : InitWith(d, NoTwin)

SpecLive == InitLive /\ [][Next]_vars /\ WF_vars(ReaderNext) /\ WF_vars(Events_next)

\* what is left to do: the octets the source still holds, counted twice,
\* and the open entries
Remaining == 2 * (Len(source) - consumed) + Len(end_offset_stack)

\* every call that returns StartFbx, StartNode or EndNode takes at least one
\* octet from the source or pops one entry, and lowers what is left to do
EveryEventMakesProgress ==
    [][(Called_next /\ ~IsTerminal(state) /\ Returned.ok
           /\ Returned.ev.kind # "EndFbx") =>
          /\ \/ consumed' > consumed
             \/ /\ end_offset_stack # << >>
                /\ end_offset_stack' = Pop(end_offset_stack)
          /\ consumed' >= consumed
          /\ consumed' <= Len(source)
          /\ Remaining' < Remaining
          /\ Remaining' >= 0]_vars

\* C35: on every finite source repeated calls of next reach
\* SuccessfullyFinished or Failed: a call that returns StartFbx, StartNode
\* or EndNode takes at least one octet from the source or pops one entry of
\* the stack, so that the octets left and the entries open, taken together,
\* strictly decrease, and such events cannot be returned forever.
C35_CursorTerminates ==
    /\ <>IsTerminal(state)
    /\ EveryEventMakesProgress

\* a document of two nodes was read to its end: six events, then the
\* terminal state
C35_Witness ==
    /\ state = SuccessfullyFinished
    /\ Len(results) = 6
    /\ Count(results, "StartNode") = 2
    /\ Count(results, "EndNode") = 2
    /\ idle_calls = 0

================================================================================
